---- MODULE Spec2Model ----
(***************************************************************************)
(* Model of the per-account task store of contracts/todo/src/lib.rs        *)
(* (TodoContract): the persistent storage keyed by DataKey, the mutating   *)
(* entry points add_task, complete_task and delete_task, the no-op init,   *)
(* and the read-only queries get_tasks, get_task and get_stats.            *)
(*                                                                         *)
(* Host semantics assumed of the ledger: every call runs atomically; a     *)
(* call that traps (a failed require_auth, or an arithmetic overflow of a  *)
(* u32, which the checked build turns into a panic) commits none of its    *)
(* writes.  Each handler is an operator from the storage at entry to an    *)
(* outcome that also counts the storage writes issued before it returned   *)
(* or trapped, so the order of the checks and the writes stays visible.    *)
(***************************************************************************)
EXTENDS Integers, Sequences, FiniteSets, TLC

VARIABLES storage, last, returned

vars == <<storage, last, returned>>

(***************************************************************************)
(* Bounds of the model.  A u32 is scaled down to the range 0 .. U32Max so  *)
(* that the upper end of the range is reached by a short run.              *)
(***************************************************************************)
U32Max == 3

U32 == 0..U32Max

\* Addresses of the accounts and the descriptions they submit.
Accounts == {"A", "B"}
Descriptions == {"X", "Y"}

(***************************************************************************)
(* Option<T>: None is the empty sequence, Some(v) is <<v>>.                *)
(***************************************************************************)
None == <<>>
Some(v) == <<v>>
unwrap_or(opt, default) == IF opt = None THEN default ELSE opt[1]

(***************************************************************************)
(* soroban_sdk::Map<u32, Task>: a function on a finite set of keys,        *)
(* iterated in increasing key order.                                       *)
(***************************************************************************)
MapNew == [k \in {} |-> 0]
MapGet(m, k) == IF k \in DOMAIN m THEN Some(m[k]) ELSE None
MapSet(m, k, v) == [x \in (DOMAIN m) \cup {k} |-> IF x = k THEN v ELSE m[x]]
MapRemove(m, k) == [x \in (DOMAIN m) \ {k} |-> m[x]]
MapLen(m) == Cardinality(DOMAIN m)

\* The key at position i (from 1) of the increasing key order.
KeyAt(m, i) == CHOOSE k \in DOMAIN m : Cardinality({j \in DOMAIN m : j < k}) = i - 1

\* As MapIter, from the largest key down.
MapIter_descending(m) == [i \in 1..MapLen(m) |-> m[KeyAt(m, MapLen(m) - i + 1)]]

MapIter(m) == [i \in 1..MapLen(m) |-> m[KeyAt(m, i)]]

(***************************************************************************)
(* struct Task                                                             *)
(***************************************************************************)
Task(id, description, completed, owner) ==
    [id |-> id, description |-> description, completed |-> completed, owner |-> owner]

(***************************************************************************)
(* Outcome of one call: the storage it commits, whether and why it         *)
(* trapped, the value it returns and the writes it issued.                 *)
(***************************************************************************)
Return(st, ret, writes) ==
    [st |-> st, trap |-> "none", ret |-> ret, writes |-> writes]
\* A trapped call commits nothing: the storage at entry stands.
Trap(entry, why, writes) ==
    [st |-> entry, trap |-> why, ret |-> None, writes |-> writes]

\* u32 addition x + y in a build with overflow checks panics past u32::MAX.
Overflows(x, y) == x + y > U32Max

(***************************************************************************)
(* Storage keys (enum DataKey): the per-account entries are indexed by the *)
(* address carried in the key.                                             *)
(***************************************************************************)
tasks_key_shared(caller) == "A"
tasks_key(caller) == caller
next_id_key(caller) == caller
has_tasks_key(caller) == caller

(***************************************************************************)
(* TodoContract::add_task                                                  *)
(***************************************************************************)
\* let next_id: u32 = ...get(&next_id_key).unwrap_or(1)
read_next_id_recycled(st, caller) ==
    MapLen(unwrap_or(st.Tasks[tasks_key(caller)], MapNew)) + 1
read_next_id_from_zero(st, caller) == unwrap_or(st.NextId[next_id_key(caller)], 0)
read_next_id(st, caller) == unwrap_or(st.NextId[next_id_key(caller)], 1)

\* let task = Task { id: next_id, description, completed: false, owner: caller }
new_task_counter_id(next_id, description, caller) ==
    Task(next_id + 1, description, FALSE, caller)
\* As new_task, with the same owner whoever calls.
new_task_first_owner(next_id, description, caller) ==
    Task(next_id, description, FALSE, "A")
new_task(next_id, description, caller) ==
    Task(next_id, description, FALSE, caller)

\* let user_has_tasks: bool = ...get(&has_tasks_key).unwrap_or(false)
read_user_has_tasks_unflagged(st, caller) == FALSE
read_user_has_tasks(st, caller) ==
    unwrap_or(st.HasTasks[has_tasks_key(caller)], FALSE)

\* As add_task, in a build without overflow checks: + 1 wraps past u32::MAX.
add_task_wrapping(st, description, caller, authed) ==
    IF ~authed THEN Trap(st, "auth", 0)
    ELSE
    LET tasks == unwrap_or(st.Tasks[tasks_key(caller)], MapNew)
        next_id == read_next_id(st, caller)
        task == new_task(next_id, description, caller)
        st1 == [st EXCEPT !.Tasks[tasks_key(caller)] =
                              Some(MapSet(tasks, next_id, task))]
        st2 == [st1 EXCEPT !.NextId[next_id_key(caller)] =
                               Some((next_id + 1) % (U32Max + 1))]
        total_tasks == unwrap_or(st2.TotalTasks, 0)
        st3 == [st2 EXCEPT !.TotalTasks = Some((total_tasks + 1) % (U32Max + 1))]
        user_has_tasks == read_user_has_tasks(st3, caller)
    IN
    IF ~user_has_tasks
    THEN LET st4 == [st3 EXCEPT !.HasTasks[has_tasks_key(caller)] = Some(TRUE)]
             user_count == unwrap_or(st4.UserCount, 0)
         IN  Return([st4 EXCEPT !.UserCount = Some((user_count + 1) % (U32Max + 1))],
                    Some(next_id), 5)
    ELSE Return(st3, Some(next_id), 3)

add_task(st, description, caller, authed) ==
    IF ~authed THEN Trap(st, "auth", 0)
    ELSE
    LET tasks == unwrap_or(st.Tasks[tasks_key(caller)], MapNew)
        next_id == read_next_id(st, caller)
        task == new_task(next_id, description, caller)
        st1 == [st EXCEPT !.Tasks[tasks_key(caller)] =
                              Some(MapSet(tasks, next_id, task))]
    IN
    IF Overflows(next_id, 1) THEN Trap(st, "overflow", 1)
    ELSE
    LET st2 == [st1 EXCEPT !.NextId[next_id_key(caller)] = Some(next_id + 1)]
        total_tasks == unwrap_or(st2.TotalTasks, 0)
    IN
    IF Overflows(total_tasks, 1) THEN Trap(st, "overflow", 2)
    ELSE
    LET st3 == [st2 EXCEPT !.TotalTasks = Some(total_tasks + 1)]
        user_has_tasks == read_user_has_tasks(st3, caller)
    IN
    IF ~user_has_tasks
    THEN LET st4 == [st3 EXCEPT !.HasTasks[has_tasks_key(caller)] = Some(TRUE)]
             user_count == unwrap_or(st4.UserCount, 0)
         IN  IF Overflows(user_count, 1) THEN Trap(st, "overflow", 4)
             ELSE Return([st4 EXCEPT !.UserCount = Some(user_count + 1)],
                         Some(next_id), 5)
    ELSE Return(st3, Some(next_id), 3)

(***************************************************************************)
(* TodoContract::complete_task                                             *)
(***************************************************************************)
\* As complete_task, with require_auth after the write.
complete_task_late_auth(st, id, caller, authed) ==
    LET tasks == unwrap_or(st.Tasks[tasks_key(caller)], MapNew)
        found == MapGet(tasks, id)
    IN
    IF found # None
    THEN LET task == [found[1] EXCEPT !.completed = TRUE]
         IN  IF ~authed THEN Trap(st, "auth", 1)
             ELSE Return([st EXCEPT !.Tasks[tasks_key(caller)] =
                                        Some(MapSet(tasks, id, task))], None, 1)
    ELSE IF ~authed THEN Trap(st, "auth", 0) ELSE Return(st, None, 0)

\* As complete_task, storing a completed record whether or not the id exists.
complete_task_upsert(st, id, caller, authed) ==
    IF ~authed THEN Trap(st, "auth", 0)
    ELSE
    LET tasks == unwrap_or(st.Tasks[tasks_key(caller)], MapNew)
        found == MapGet(tasks, id)
        task == IF found # None THEN [found[1] EXCEPT !.completed = TRUE]
                ELSE Task(id, "X", TRUE, caller)
    IN  Return([st EXCEPT !.Tasks[tasks_key(caller)] =
                              Some(MapSet(tasks, id, task))], None, 1)

\* As complete_task, flipping the completed flag instead of setting it.
complete_task_toggle(st, id, caller, authed) ==
    IF ~authed THEN Trap(st, "auth", 0)
    ELSE
    LET tasks == unwrap_or(st.Tasks[tasks_key(caller)], MapNew)
        found == MapGet(tasks, id)
    IN
    IF found # None
    THEN LET task == [found[1] EXCEPT !.completed = ~@]
         IN  Return([st EXCEPT !.Tasks[tasks_key(caller)] =
                                   Some(MapSet(tasks, id, task))], None, 1)
    ELSE Return(st, None, 0)

\* As complete_task, storing a new completed task in place of the one read.
complete_task_rebuilds(st, id, caller, authed) ==
    IF ~authed THEN Trap(st, "auth", 0)
    ELSE
    LET tasks == unwrap_or(st.Tasks[tasks_key(caller)], MapNew)
        found == MapGet(tasks, id)
    IN
    IF found # None
    THEN LET task == Task(id, "", TRUE, caller)
         IN  Return([st EXCEPT !.Tasks[tasks_key(caller)] =
                                   Some(MapSet(tasks, id, task))], None, 1)
    ELSE Return(st, None, 0)

complete_task(st, id, caller, authed) ==
    IF ~authed THEN Trap(st, "auth", 0)
    ELSE
    LET tasks == unwrap_or(st.Tasks[tasks_key(caller)], MapNew)
        found == MapGet(tasks, id)
    IN
    IF found # None
    THEN LET task == [found[1] EXCEPT !.completed = TRUE]
         IN  Return([st EXCEPT !.Tasks[tasks_key(caller)] =
                                   Some(MapSet(tasks, id, task))], None, 1)
    ELSE Return(st, None, 0)

(***************************************************************************)
(* TodoContract::delete_task                                               *)
(***************************************************************************)
\* As delete_task, without the decrement of total_tasks.
delete_task_no_decrement(st, id, caller, authed) ==
    IF ~authed THEN Trap(st, "auth", 0)
    ELSE
    LET tasks == unwrap_or(st.Tasks[tasks_key(caller)], MapNew)
    IN
    IF MapGet(tasks, id) # None
    THEN Return([st EXCEPT !.Tasks[tasks_key(caller)] = Some(MapRemove(tasks, id))],
                None, 1)
    ELSE Return(st, None, 0)

\* As delete_task, without the test that the task exists.
delete_task_unconditional(st, id, caller, authed) ==
    IF ~authed THEN Trap(st, "auth", 0)
    ELSE
    LET tasks == unwrap_or(st.Tasks[tasks_key(caller)], MapNew)
        st1 == [st EXCEPT !.Tasks[tasks_key(caller)] = Some(MapRemove(tasks, id))]
        total_tasks == unwrap_or(st1.TotalTasks, 0)
    IN  IF total_tasks > 0
        THEN Return([st1 EXCEPT !.TotalTasks = Some(total_tasks - 1)], None, 2)
        ELSE Return(st1, None, 1)

\* As delete_task, storing an empty collection instead of removing one record.
delete_task_clears(st, id, caller, authed) ==
    IF ~authed THEN Trap(st, "auth", 0)
    ELSE
    LET tasks == unwrap_or(st.Tasks[tasks_key(caller)], MapNew)
    IN
    IF MapGet(tasks, id) # None
    THEN LET st1 == [st EXCEPT !.Tasks[tasks_key(caller)] = Some(MapNew)]
             total_tasks == unwrap_or(st1.TotalTasks, 0)
         IN  IF total_tasks > 0
             THEN Return([st1 EXCEPT !.TotalTasks = Some(total_tasks - 1)], None, 2)
             ELSE Return(st1, None, 1)
    ELSE Return(st, None, 0)

\* As delete_task, un-counting the account once its collection is empty.
delete_task_forgets_user(st, id, caller, authed) ==
    IF ~authed THEN Trap(st, "auth", 0)
    ELSE
    LET tasks == unwrap_or(st.Tasks[tasks_key(caller)], MapNew)
    IN
    IF MapGet(tasks, id) # None
    THEN LET st1 == [st EXCEPT !.Tasks[tasks_key(caller)] = Some(MapRemove(tasks, id))]
             total_tasks == unwrap_or(st1.TotalTasks, 0)
             st2 == IF total_tasks > 0
                    THEN [st1 EXCEPT !.TotalTasks = Some(total_tasks - 1)]
                    ELSE st1
             user_count == unwrap_or(st2.UserCount, 0)
         IN  IF MapLen(MapRemove(tasks, id)) = 0 /\ user_count > 0
             THEN Return([st2 EXCEPT !.HasTasks[has_tasks_key(caller)] = Some(FALSE),
                                     !.UserCount = Some(user_count - 1)], None, 4)
             ELSE Return(st2, None, 2)
    ELSE Return(st, None, 0)

\* As delete_task, taking two from the global counter for one removed task.
delete_task_decrements_twice(st, id, caller, authed) ==
    IF ~authed THEN Trap(st, "auth", 0)
    ELSE
    LET tasks == unwrap_or(st.Tasks[tasks_key(caller)], MapNew)
    IN
    IF MapGet(tasks, id) # None
    THEN LET st1 == [st EXCEPT !.Tasks[tasks_key(caller)] = Some(MapRemove(tasks, id))]
             total_tasks == unwrap_or(st1.TotalTasks, 0)
         IN  IF total_tasks > 1
             THEN Return([st1 EXCEPT !.TotalTasks = Some(total_tasks - 2)], None, 2)
             ELSE IF total_tasks > 0
             THEN Return([st1 EXCEPT !.TotalTasks = Some(total_tasks - 1)], None, 2)
             ELSE Return(st1, None, 1)
    ELSE Return(st, None, 0)

delete_task(st, id, caller, authed) ==
    IF ~authed THEN Trap(st, "auth", 0)
    ELSE
    LET tasks == unwrap_or(st.Tasks[tasks_key(caller)], MapNew)
    IN
    IF MapGet(tasks, id) # None
    THEN LET st1 == [st EXCEPT !.Tasks[tasks_key(caller)] = Some(MapRemove(tasks, id))]
             total_tasks == unwrap_or(st1.TotalTasks, 0)
         IN  IF total_tasks > 0
             THEN Return([st1 EXCEPT !.TotalTasks = Some(total_tasks - 1)], None, 2)
             ELSE Return(st1, None, 1)
    ELSE Return(st, None, 0)

(***************************************************************************)
(* Read-only queries.                                                      *)
(***************************************************************************)
get_stats(st) == <<unwrap_or(st.TotalTasks, 0), unwrap_or(st.UserCount, 0)>>
get_tasks(st, user) == MapIter(unwrap_or(st.Tasks[tasks_key(user)], MapNew))
get_task(st, id, user) == MapGet(unwrap_or(st.Tasks[tasks_key(user)], MapNew), id)

(***************************************************************************)
(* The read entry points as calls: none of them calls require_auth, none   *)
(* of them writes.                                                         *)
(***************************************************************************)
get_stats_call(st) == Return(st, Some(get_stats(st)), 0)

\* As get_tasks, storing the empty collection it substitutes for a missing one.
get_tasks_call_storing(st, user) ==
    IF st.Tasks[tasks_key(user)] = None
    THEN Return([st EXCEPT !.Tasks[tasks_key(user)] = Some(MapNew)],
                Some(get_tasks(st, user)), 1)
    ELSE Return(st, Some(get_tasks(st, user)), 0)

get_tasks_call(st, user) == Return(st, Some(get_tasks(st, user)), 0)

get_task_call(st, id, user) == Return(st, Some(get_task(st, id, user)), 0)

(***************************************************************************)
(* Bytes: a sequence of chunks.  A literal b"..." of the source is one     *)
(* chunk holding its text; bytes that are computed (a path, a description, *)
(* the digits of a number) are chunks of one character each.  A TLA+       *)
(* string cannot hold a grave accent: the five literals of render_home and  *)
(* render_about that have them are written with apostrophes in their place.*)
(***************************************************************************)
Lit(s) == <<s>>

RECURSIVE concat_bytes(_)
concat_bytes(parts) ==
    IF parts = <<>> THEN <<>> ELSE Head(parts) \o concat_bytes(Tail(parts))

\* let mut buf = [0u8; 256]
BufLen == 256

\* s.copy_into_slice(&mut buf[..len]) panics when len exceeds the buffer.
string_to_bytes_panics(s) == Len(s) > BufLen
string_to_bytes(s) == [i \in 1..Len(s) |-> s[i]]

\* The bytes of a stored description; the descriptions of the model are one
\* byte long.
description_bytes(description) == <<description>>

DigitChars == <<"0", "1", "2", "3", "4", "5", "6", "7", "8", "9">>
IsDigit(b) == \E d \in 1..10 : DigitChars[d] = b
DigitValue(b) == (CHOOSE d \in 1..10 : DigitChars[d] = b) - 1

\* As u32_to_bytes, without the reversal of the digits.
RECURSIVE u32_to_bytes_unreversed(_)
u32_to_bytes_unreversed(n) ==
    IF n = 0 THEN Lit("0")
    ELSE IF n < 10 THEN <<DigitChars[n + 1]>>
    ELSE <<DigitChars[(n % 10) + 1]>> \o u32_to_bytes_unreversed(n \div 10)

RECURSIVE u32_to_bytes(_)
u32_to_bytes(n) ==
    IF n = 0 THEN Lit("0")
    ELSE IF n < 10 THEN <<DigitChars[n + 1]>>
    ELSE u32_to_bytes(n \div 10) \o <<DigitChars[(n % 10) + 1]>>

\* As EscapeByte, without the arm of the backslash.
EscapeByte_raw_backslash(b) ==
    IF b = "\"" THEN <<"\\", "\"">>
    ELSE IF b = "\n" THEN <<"\\", "n">>
    ELSE IF b = "\r" THEN <<"\\", "r">>
    ELSE IF b = "\t" THEN <<"\\", "t">>
    ELSE <<b>>

EscapeByte(b) ==
    IF b = "\"" THEN <<"\\", "\"">>
    ELSE IF b = "\\" THEN <<"\\", "\\">>
    ELSE IF b = "\n" THEN <<"\\", "n">>
    ELSE IF b = "\r" THEN <<"\\", "r">>
    ELSE IF b = "\t" THEN <<"\\", "t">>
    ELSE <<b>>

RECURSIVE EscapeBytes(_)
EscapeBytes(input) ==
    IF input = <<>> THEN <<>>
    ELSE EscapeByte(Head(input)) \o EscapeBytes(Tail(input))

escape_json_string(s) == EscapeBytes(string_to_bytes(s))

\* if let Some(completed_filter) = filter { if task.completed != completed_filter { continue; } }
passes_filter_inverted(task, filter) == filter = None \/ task.completed # filter[1]
passes_filter(task, filter) == filter = None \/ task.completed = filter[1]

Shown(tasks, filter) == SelectSeq(MapIter(tasks), LAMBDA task : passes_filter(task, filter))

(***************************************************************************)
(* TodoContract::render_home                                               *)
(***************************************************************************)
MdHeader == Lit("{{include contract=CCYEOY2JTOQ2JIMLLERAFNHAVKEKMEJDBOTLN6DIIWBHWEIMUA2T2VY4 func=\"header\"}}\n")
MdNav == Lit("[Home](render:/) | [Tasks](render:/tasks) | [About](render:/about)\n\n")
MdRule == Lit("---\n\n")
MdFooter == Lit("{{include contract=CCYEOY2JTOQ2JIMLLERAFNHAVKEKMEJDBOTLN6DIIWBHWEIMUA2T2VY4 func=\"footer\"}}")

render_home(wallet_connected) ==
    MdHeader \o MdNav \o MdRule \o
    Lit("## Welcome to the Soroban Render Demo\n\n") \o
    Lit("This is a **fully functional todo application** where the entire user interface is defined by the smart contract itself.\n\n") \o
    Lit("> [!TIP]\n> This entire UI is generated by the smart contract's 'render()' function. The markdown you see, including this callout, comes directly from the blockchain!\n\n") \o
    Lit("### What makes this special?\n\n") \o
    Lit("- **Self-contained UI**: The contract's 'render()' function returns this markdown you're reading\n") \o
    Lit("- **Interactive elements**: Forms and buttons trigger real blockchain transactions\n") \o
    Lit("- **Per-user storage**: Each wallet has its own private task list\n") \o
    Lit("- **Composability**: This app includes header/footer components from a separate theme contract\n\n") \o
    (IF wallet_connected
     THEN Lit("> [!NOTE]\n> Your wallet is connected! You're ready to create and manage tasks.\n\n") \o
          Lit("### Get Started\n\n") \o
          Lit("Head over to [Tasks](render:/tasks) to manage your todo list.\n\n")
     ELSE Lit("> [!WARNING]\n> Connect your wallet (button in top-right) to create and manage your personal todo list.\n\n") \o
          Lit("### Get Started\n\n") \o
          Lit("Each user has their own private task list stored on the blockchain.\n\n")) \o
    MdFooter

(***************************************************************************)
(* TodoContract::render_about                                              *)
(***************************************************************************)
\* As render_about, printing the task counter in both columns.
render_about_one_counter(st) ==
    LET total_tasks == unwrap_or(st.TotalTasks, 0)
        user_count == unwrap_or(st.UserCount, 0)
    IN  MdHeader \o MdNav \o MdRule \o
        Lit("## About Soroban Render\n\n") \o
        Lit("Soroban Render is a community convention for building **self-contained, renderable dApps** on Stellar's Soroban smart contract platform.\n\n") \o
        Lit("> [!INFO]\n> Inspired by [Gno.land's Render() function](https://docs.gno.land/users/explore-with-gnoweb/#viewing-rendered-content), Soroban Render allows smart contracts to define their own user interface.\n\n") \o
        Lit("### Live Stats\n\n") \o
        Lit(":::columns\n") \o
        Lit("**Total Tasks**\n\n") \o
        Lit("# ") \o
        u32_to_bytes(total_tasks) \o
        Lit("\n\ntasks stored on-chain\n") \o
        Lit("|||\n") \o
        Lit("**Unique Users**\n\n") \o
        Lit("# ") \o
        u32_to_bytes(total_tasks) \o
        Lit("\n\nwallets with tasks\n") \o
        Lit(":::\n\n") \o
        Lit("### How It Works\n\n") \o
        Lit(":::columns\n") \o
        Lit("**1. Contract Renders UI**\n\nThe 'render(path, viewer)' function returns markdown or JSON describing the interface.\n") \o
        Lit("|||\n") \o
        Lit("**2. Special Protocols**\n\n'render:' for navigation, 'tx:' for transactions, 'form:' for form submissions.\n") \o
        Lit("|||\n") \o
        Lit("**3. Universal Viewer**\n\nAny contract implementing 'render()' can be viewed with the same generic viewer.\n") \o
        Lit(":::\n\n") \o
        Lit("### Learn More\n\n") \o
        Lit("- [View the source code on GitHub](https://github.com/wyhaines/soroban-render)\n") \o
        Lit("- [Soroban Documentation](https://soroban.stellar.org/docs)\n") \o
        Lit("- [Stellar Developer Portal](https://developers.stellar.org)\n\n") \o
        MdFooter

render_about(st) ==
    LET total_tasks == unwrap_or(st.TotalTasks, 0)
        user_count == unwrap_or(st.UserCount, 0)
    IN  MdHeader \o MdNav \o MdRule \o
        Lit("## About Soroban Render\n\n") \o
        Lit("Soroban Render is a community convention for building **self-contained, renderable dApps** on Stellar's Soroban smart contract platform.\n\n") \o
        Lit("> [!INFO]\n> Inspired by [Gno.land's Render() function](https://docs.gno.land/users/explore-with-gnoweb/#viewing-rendered-content), Soroban Render allows smart contracts to define their own user interface.\n\n") \o
        Lit("### Live Stats\n\n") \o
        Lit(":::columns\n") \o
        Lit("**Total Tasks**\n\n") \o
        Lit("# ") \o
        u32_to_bytes(total_tasks) \o
        Lit("\n\ntasks stored on-chain\n") \o
        Lit("|||\n") \o
        Lit("**Unique Users**\n\n") \o
        Lit("# ") \o
        u32_to_bytes(user_count) \o
        Lit("\n\nwallets with tasks\n") \o
        Lit(":::\n\n") \o
        Lit("### How It Works\n\n") \o
        Lit(":::columns\n") \o
        Lit("**1. Contract Renders UI**\n\nThe 'render(path, viewer)' function returns markdown or JSON describing the interface.\n") \o
        Lit("|||\n") \o
        Lit("**2. Special Protocols**\n\n'render:' for navigation, 'tx:' for transactions, 'form:' for form submissions.\n") \o
        Lit("|||\n") \o
        Lit("**3. Universal Viewer**\n\nAny contract implementing 'render()' can be viewed with the same generic viewer.\n") \o
        Lit(":::\n\n") \o
        Lit("### Learn More\n\n") \o
        Lit("- [View the source code on GitHub](https://github.com/wyhaines/soroban-render)\n") \o
        Lit("- [Soroban Documentation](https://soroban.stellar.org/docs)\n") \o
        Lit("- [Stellar Developer Portal](https://developers.stellar.org)\n\n") \o
        MdFooter

(***************************************************************************)
(* TodoContract::render_task_list                                          *)
(***************************************************************************)
MdConnect ==
    Lit("## Connect Your Wallet\n\n") \o
    Lit("**Please connect your wallet** to view and manage your personal todo list.\n\n") \o
    Lit("Each user has their own private task list that only they can see and modify.\n\n")
MdAddTask ==
    Lit("## Add Task\n\n") \o
    Lit("<textarea name=\"description\" rows=\"2\" placeholder=\"What needs to be done?\"></textarea>\n\n") \o
    Lit("[Add Task](form:add_task)\n\n")
MdFilter ==
    Lit("## Filter\n\n") \o
    Lit("[All](render:/tasks) | [Pending](render:/tasks/pending) | [Completed](render:/tasks/completed)\n\n")
MdYourTasks == Lit("## Your Tasks\n\n")
MdNoMatching == Lit("*No matching tasks.*\n\n")
MdNoTasks == Lit("*No tasks yet. Add one above!*\n\n")
MdDone == Lit("[Done](tx:complete_task {\"id\":")
MdDelete == Lit("[Delete](tx:delete_task {\"id\":")
MdIdOpen == Lit(" (#")
MdIdClose == Lit(") ")

md_task_line(task) ==
    Lit("- ") \o (IF task.completed THEN Lit("[x]") ELSE Lit("[ ]")) \o Lit(" ") \o
    (IF task.completed
     THEN Lit("~~") \o string_to_bytes(description_bytes(task.description)) \o Lit("~~")
     ELSE string_to_bytes(description_bytes(task.description))) \o
    MdIdOpen \o u32_to_bytes(task.id) \o MdIdClose \o
    (IF ~task.completed
     THEN MdDone \o u32_to_bytes(task.id) \o Lit("}) ")
     ELSE <<>>) \o
    MdDelete \o u32_to_bytes(task.id) \o Lit("})\n")

RECURSIVE md_task_lines(_)
md_task_lines(shown) ==
    IF shown = <<>> THEN <<>>
    ELSE md_task_line(Head(shown)) \o md_task_lines(Tail(shown))

md_list_body(tasks, filter) ==
    LET shown == Shown(tasks, filter)
        has_tasks == shown # <<>>
    IN  MdAddTask \o MdFilter \o MdYourTasks \o
        md_task_lines(shown) \o
        (IF ~has_tasks
         THEN (IF filter # None THEN MdNoMatching ELSE MdNoTasks)
         ELSE <<>>)

\* As render_task_list, with the task list outside the wallet test.
render_task_list_open(tasks, filter, wallet_connected) ==
    MdHeader \o MdNav \o MdRule \o
    (IF ~wallet_connected THEN MdConnect ELSE <<>>) \o
    md_list_body(tasks, filter) \o
    MdFooter

render_task_list(tasks, filter, wallet_connected) ==
    MdHeader \o MdNav \o MdRule \o
    (IF ~wallet_connected THEN MdConnect ELSE md_list_body(tasks, filter)) \o
    MdFooter

\* The string_to_bytes calls of render_task_list: one per task shown.
render_task_list_panics(tasks, filter, wallet_connected) ==
    /\ wallet_connected
    /\ \E k \in DOMAIN tasks :
          /\ passes_filter(tasks[k], filter)
          /\ string_to_bytes_panics(description_bytes(tasks[k].description))

(***************************************************************************)
(* TodoContract::render_single_task                                        *)
(***************************************************************************)
MdTaskDetails == Lit("# Task Details\n\n")
MdNotFound == Lit("*Task not found*\n\n[Back to list](render:/)\n")
MdMarkComplete == Lit("[Mark Complete](tx:complete_task {\"id\":")

render_single_task(tasks, id) ==
    LET found == MapGet(tasks, id)
    IN  MdTaskDetails \o
        (IF found # None
         THEN LET task == found[1]
                  status == IF task.completed THEN Lit("Completed") ELSE Lit("Pending")
              IN  Lit("**ID:** ") \o u32_to_bytes(task.id) \o Lit("\n\n") \o
                  Lit("**Description:** ") \o string_to_bytes(description_bytes(task.description)) \o Lit("\n\n") \o
                  Lit("**Status:** ") \o status \o Lit("\n\n") \o
                  (IF ~task.completed
                   THEN MdMarkComplete \o u32_to_bytes(task.id) \o Lit("}) | ")
                   ELSE <<>>) \o
                  MdDelete \o u32_to_bytes(task.id) \o Lit("})\n\n") \o
                  Lit("[Back to list](render:/)\n")
         ELSE MdNotFound)

render_single_task_panics(tasks, id) ==
    /\ MapGet(tasks, id) # None
    /\ string_to_bytes_panics(description_bytes(tasks[id].description))

(***************************************************************************)
(* TodoContract::render_json                                               *)
(***************************************************************************)
SubPending == <<"/", "p", "e", "n", "d", "i", "n", "g">>
SubCompleted == <<"/", "c", "o", "m", "p", "l", "e", "t", "e", "d">>

\* Determine filter from subpath
json_filter_swapped(subpath) ==
    IF subpath # None
    THEN (IF subpath[1] = SubPending THEN Some(TRUE)
          ELSE IF subpath[1] = SubCompleted THEN Some(FALSE)
          ELSE None)
    ELSE None
json_filter(subpath) ==
    IF subpath # None
    THEN (IF subpath[1] = SubPending THEN Some(FALSE)
          ELSE IF subpath[1] = SubCompleted THEN Some(TRUE)
          ELSE None)
    ELSE None

JsonOpen == Lit("{\"format\":\"soroban-render-json-v1\",\"title\":\"Todo List\",\"components\":[")
JsonHeading == Lit("{\"type\":\"heading\",\"level\":1,\"text\":\"Todo List\"},")
JsonConnect ==
    Lit("{\"type\":\"heading\",\"level\":2,\"text\":\"Connect Your Wallet\"},") \o
    Lit("{\"type\":\"text\",\"content\":\"Please connect your wallet to view and manage your personal todo list.\"},") \o
    Lit("{\"type\":\"text\",\"content\":\"Each user has their own private task list that only they can see and modify.\"},")
JsonForm == Lit("{\"type\":\"form\",\"action\":\"add_task\",\"fields\":[{\"name\":\"description\",\"type\":\"text\",\"placeholder\":\"Enter task description\",\"required\":true}],\"submitLabel\":\"Add Task\"},")
JsonNavOpen == Lit("{\"type\":\"navigation\",\"items\":[")
JsonActive == Lit(",\"active\":true")
JsonNavAll == Lit("{\"label\":\"All\",\"path\":\"/json\"")
JsonNavPending == Lit("{\"label\":\"Pending\",\"path\":\"/json/pending\"")
JsonNavCompleted == Lit("{\"label\":\"Completed\",\"path\":\"/json/completed\"")
JsonChartOpen == Lit("{\"type\":\"chart\",\"chartType\":\"pie\",\"title\":\"Task Status\",\"data\":[")
JsonChartCompleted == Lit("{\"label\":\"Completed\",\"value\":")
JsonChartPending == Lit("{\"label\":\"Pending\",\"value\":")
JsonTasksHeading == Lit("{\"type\":\"heading\",\"level\":2,\"text\":\"Your Tasks\"},")
JsonContainerOpen == Lit("{\"type\":\"container\",\"className\":\"task-list\",\"components\":[")
JsonTaskOpen == Lit("{\"type\":\"task\",\"id\":")
JsonTaskCompleted == Lit("\",\"completed\":")
JsonActionsOpen == Lit(",\"actions\":[")
JsonActionDone == Lit("{\"type\":\"tx\",\"method\":\"complete_task\",\"args\":{\"id\":")
JsonActionDelete == Lit("{\"type\":\"tx\",\"method\":\"delete_task\",\"args\":{\"id\":")
JsonNoMatching == Lit("{\"type\":\"text\",\"content\":\"No matching tasks.\"}")
JsonNoTasks == Lit("{\"type\":\"text\",\"content\":\"No tasks yet. Add one above!\"}")
JsonDivider == Lit("{\"type\":\"divider\"},")
JsonFooter == Lit("{\"type\":\"text\",\"content\":\"Powered by Soroban Render\"}")
JsonClose == Lit("]}")

\* As json_navigation, with the All item active whatever the filter.
json_navigation_all_active(filter) ==
    JsonNavOpen \o
    JsonNavAll \o JsonActive \o Lit("},") \o
    JsonNavPending \o (IF filter = Some(FALSE) THEN JsonActive ELSE <<>>) \o Lit("},") \o
    JsonNavCompleted \o (IF filter = Some(TRUE) THEN JsonActive ELSE <<>>) \o Lit("}]},")

json_navigation(filter) ==
    JsonNavOpen \o
    JsonNavAll \o (IF filter = None THEN JsonActive ELSE <<>>) \o Lit("},") \o
    JsonNavPending \o (IF filter = Some(FALSE) THEN JsonActive ELSE <<>>) \o Lit("},") \o
    JsonNavCompleted \o (IF filter = Some(TRUE) THEN JsonActive ELSE <<>>) \o Lit("}]},")

\* Count completed vs pending for chart
CountWhere(tasks, completed) ==
    Cardinality({k \in DOMAIN tasks : tasks[k].completed = completed})
completed_count_shown(tasks, filter) ==
    Cardinality({k \in DOMAIN tasks :
                    tasks[k].completed /\ passes_filter(tasks[k], filter)})
completed_count(tasks, filter) == CountWhere(tasks, TRUE)
pending_count(tasks, filter) == CountWhere(tasks, FALSE)

json_chart(tasks, filter) ==
    IF completed_count(tasks, filter) > 0 \/ pending_count(tasks, filter) > 0
    THEN JsonChartOpen \o
         JsonChartCompleted \o u32_to_bytes(completed_count(tasks, filter)) \o Lit(",\"color\":\"#22c55e\"},") \o
         JsonChartPending \o u32_to_bytes(pending_count(tasks, filter)) \o Lit(",\"color\":\"#eab308\"}") \o
         Lit("]},")
    ELSE <<>>

\* As json_task, with the complete_task action outside the test of completed.
json_task_always_done(task) ==
    LET action_count == 1
    IN  JsonTaskOpen \o u32_to_bytes(task.id) \o
        Lit(",\"text\":\"") \o escape_json_string(description_bytes(task.description)) \o
        JsonTaskCompleted \o (IF task.completed THEN Lit("true") ELSE Lit("false")) \o
        JsonActionsOpen \o
        (IF TRUE
         THEN JsonActionDone \o u32_to_bytes(task.id) \o Lit("},\"label\":\"Done\"}")
         ELSE <<>>) \o
        (IF action_count > 0 THEN Lit(",") ELSE <<>>) \o
        JsonActionDelete \o u32_to_bytes(task.id) \o Lit("},\"label\":\"Delete\"}") \o
        Lit("]}")

json_task(task) ==
    LET action_count == IF ~task.completed THEN 1 ELSE 0
    IN  JsonTaskOpen \o u32_to_bytes(task.id) \o
        Lit(",\"text\":\"") \o escape_json_string(description_bytes(task.description)) \o
        JsonTaskCompleted \o (IF task.completed THEN Lit("true") ELSE Lit("false")) \o
        JsonActionsOpen \o
        (IF ~task.completed
         THEN JsonActionDone \o u32_to_bytes(task.id) \o Lit("},\"label\":\"Done\"}")
         ELSE <<>>) \o
        (IF action_count > 0 THEN Lit(",") ELSE <<>>) \o
        JsonActionDelete \o u32_to_bytes(task.id) \o Lit("},\"label\":\"Delete\"}") \o
        Lit("]}")

\* As json_tasks, with each task component put before the ones already built.
RECURSIVE json_tasks_prepending(_, _)
json_tasks_prepending(shown, task_count) ==
    IF shown = <<>> THEN <<>>
    ELSE json_tasks_prepending(Tail(shown), task_count + 1) \o
         (IF Tail(shown) # <<>> THEN Lit(",") ELSE <<>>) \o
         json_task(Head(shown))

\* As json_tasks, with the separator after each task component.
RECURSIVE json_tasks_comma_after(_, _)
json_tasks_comma_after(shown, task_count) ==
    IF shown = <<>> THEN <<>>
    ELSE json_task(Head(shown)) \o Lit(",") \o
         json_tasks_comma_after(Tail(shown), task_count + 1)

RECURSIVE json_tasks(_, _)
json_tasks(shown, task_count) ==
    IF shown = <<>> THEN <<>>
    ELSE (IF task_count > 0 THEN Lit(",") ELSE <<>>) \o
         json_task(Head(shown)) \o json_tasks(Tail(shown), task_count + 1)

json_body(tasks, filter) ==
    LET shown == Shown(tasks, filter)
        task_count == Len(shown)
    IN  JsonForm \o json_navigation(filter) \o json_chart(tasks, filter) \o
        JsonTasksHeading \o JsonContainerOpen \o
        json_tasks(shown, 0) \o
        (IF task_count = 0
         THEN (IF filter # None THEN JsonNoMatching ELSE JsonNoTasks)
         ELSE <<>>) \o
        Lit("]},")

\* As render_json, with the task components outside the wallet test.
render_json_open(tasks, subpath, wallet_connected) ==
    LET filter == json_filter(subpath)
    IN  JsonOpen \o JsonHeading \o
        (IF ~wallet_connected THEN JsonConnect ELSE <<>>) \o
        json_body(tasks, filter) \o
        JsonDivider \o JsonFooter \o JsonClose

render_json(tasks, subpath, wallet_connected) ==
    LET filter == json_filter(subpath)
    IN  JsonOpen \o JsonHeading \o
        (IF ~wallet_connected THEN JsonConnect ELSE json_body(tasks, filter)) \o
        JsonDivider \o JsonFooter \o JsonClose

\* The string_to_bytes calls of render_json: one per task shown.
render_json_panics(tasks, subpath, wallet_connected) ==
    /\ wallet_connected
    /\ \E k \in DOMAIN tasks :
          /\ passes_filter(tasks[k], json_filter(subpath))
          /\ string_to_bytes_panics(description_bytes(tasks[k].description))

(***************************************************************************)
(* TodoContract::render: the routes, tried in the order of the source.     *)
(***************************************************************************)
home_bytes == <<"/">>
tasks_bytes == <<"/", "t", "a", "s", "k", "s">>
about_bytes == <<"/", "a", "b", "o", "u", "t">>
pending_bytes == <<"/", "p", "e", "n", "d", "i", "n", "g">>
completed_bytes == <<"/", "c", "o", "m", "p", "l", "e", "t", "e", "d">>
json_prefix == <<"/", "j", "s", "o", "n">>
tasks_pending_bytes == <<"/", "t", "a", "s", "k", "s", "/", "p", "e", "n", "d", "i", "n", "g">>
tasks_completed_bytes == <<"/", "t", "a", "s", "k", "s", "/", "c", "o", "m", "p", "l", "e", "t", "e", "d">>
task_prefix == <<"/", "t", "a", "s", "k", "/">>

\* The first n bytes of path_bytes are those of prefix.
StartsWith(path_bytes, prefix, n) == \A i \in 1..n : path_bytes[i] = prefix[i]

\* The route render takes for the path: its handler and the handler's arguments.
route(path_bytes) ==
    IF Len(path_bytes) >= 5 /\ StartsWith(path_bytes, json_prefix, 5)
    THEN [handler |-> "render_json",
          subpath |-> IF Len(path_bytes) > 5
                      THEN Some(SubSeq(path_bytes, 6, Len(path_bytes)))
                      ELSE None]
    ELSE IF path_bytes = home_bytes THEN [handler |-> "render_home"]
    ELSE IF path_bytes = about_bytes THEN [handler |-> "render_about"]
    ELSE IF path_bytes = tasks_bytes
    THEN [handler |-> "render_task_list", filter |-> None]
    ELSE IF path_bytes = tasks_pending_bytes \/ path_bytes = pending_bytes
    THEN [handler |-> "render_task_list", filter |-> Some(FALSE)]
    ELSE IF path_bytes = tasks_completed_bytes \/ path_bytes = completed_bytes
    THEN [handler |-> "render_task_list", filter |-> Some(TRUE)]
    ELSE IF /\ Len(path_bytes) > 6
            /\ StartsWith(path_bytes, task_prefix, 6)
            /\ IsDigit(path_bytes[7])
    THEN [handler |-> "render_single_task", id |-> DigitValue(path_bytes[7])]
    ELSE [handler |-> "render_home"]

\* The collection render reads: the viewer's, or an empty one without viewer.
\* As viewer_tasks, reading one collection for every viewer.
viewer_tasks_first_account(st, viewer) ==
    IF viewer # None THEN unwrap_or(st.Tasks[tasks_key("A")], MapNew)
    ELSE MapNew

viewer_tasks(st, viewer) ==
    IF viewer # None THEN unwrap_or(st.Tasks[tasks_key(viewer[1])], MapNew)
    ELSE MapNew

\* path: None, or Some of the bytes of the path string.
render(st, path, viewer) ==
    IF path # None /\ string_to_bytes_panics(path[1]) THEN Trap(st, "panic", 0)
    ELSE
    LET tasks == viewer_tasks(st, viewer)
        path_bytes == IF path # None THEN string_to_bytes(path[1]) ELSE home_bytes
        to == route(path_bytes)
        wallet_connected == viewer # None
    IN
    IF to.handler = "render_json"
    THEN (IF render_json_panics(tasks, to.subpath, wallet_connected)
          THEN Trap(st, "panic", 0)
          ELSE Return(st, Some(render_json(tasks, to.subpath, wallet_connected)), 0))
    ELSE IF to.handler = "render_home"
    THEN Return(st, Some(render_home(wallet_connected)), 0)
    ELSE IF to.handler = "render_about"
    THEN Return(st, Some(render_about(st)), 0)
    ELSE IF to.handler = "render_task_list"
    THEN (IF render_task_list_panics(tasks, to.filter, wallet_connected)
          THEN Trap(st, "panic", 0)
          ELSE Return(st, Some(render_task_list(tasks, to.filter, wallet_connected)), 0))
    ELSE (IF render_single_task_panics(tasks, to.id)
          THEN Trap(st, "panic", 0)
          ELSE Return(st, Some(render_single_task(tasks, to.id)), 0))

(***************************************************************************)
(* The state.  storage is the contract's persistent storage, one field per *)
(* DataKey variant, each entry an Option (None while the key was never     *)
(* written).  last records the most recent call, its arguments and its     *)
(* outcome (found: whether the id argument was in the caller's collection  *)
(* at entry); of a call refused by require_auth it keeps the entry point,  *)
(* the caller and the outcome only.  returned records, per account, the    *)
(* ids that successful add_task calls have returned to it, oldest first.   *)
(* Of a read call, caller is the user argument (of render: the viewer, ""  *)
(* when absent), path the path argument of render, and ret the value       *)
(* returned.                                                               *)
(***************************************************************************)
NoCall ==
    [op |-> "none", caller |-> "", id |-> 0, description |-> "", authed |-> FALSE,
     trap |-> "none", ret |-> None, writes |-> 0, found |-> FALSE, path |-> None]

Call(op, caller, id, description, authed, found, out) ==
    IF out.trap = "auth"
    THEN [NoCall EXCEPT !.op = op, !.caller = caller, !.authed = authed,
                        !.trap = out.trap, !.writes = out.writes]
    ELSE [op |-> op, caller |-> caller, id |-> id, description |-> description,
          authed |-> authed, trap |-> out.trap, ret |-> out.ret,
          writes |-> out.writes, found |-> found, path |-> None]

\* Ids passed to complete_task and delete_task; U32Max is never in a collection.
TaskIds == 1..U32Max

Init ==
    /\ storage = [Tasks |-> [a \in Accounts |-> None],
                  NextId |-> [a \in Accounts |-> None],
                  HasTasks |-> [a \in Accounts |-> None],
                  TotalTasks |-> None,
                  UserCount |-> None]
    /\ last = NoCall
    /\ returned = [a \in Accounts |-> <<>>]

Has(st, id, user) == get_task(st, id, user) # None

InitCall ==
    /\ last' = [NoCall EXCEPT !.op = "init"]
    /\ UNCHANGED <<storage, returned>>

AddTask ==
    \E caller \in Accounts, description \in Descriptions, authed \in BOOLEAN :
        LET out == add_task(storage, description, caller, authed)
        IN  /\ storage' = out.st
            /\ last' = Call("add_task", caller, 0, description, authed, FALSE, out)
            /\ returned' = IF out.trap = "none"
                           THEN [returned EXCEPT ![caller] = Append(@, out.ret[1])]
                           ELSE returned

CompleteTask ==
    \E caller \in Accounts, id \in TaskIds, authed \in BOOLEAN :
        LET out == complete_task(storage, id, caller, authed)
        IN  /\ storage' = out.st
            /\ last' = Call("complete_task", caller, id, "", authed,
                            Has(storage, id, caller), out)
            /\ UNCHANGED returned

DeleteTask ==
    \E caller \in Accounts, id \in TaskIds, authed \in BOOLEAN :
        LET out == delete_task(storage, id, caller, authed)
        IN  /\ storage' = out.st
            /\ last' = Call("delete_task", caller, id, "", authed,
                            Has(storage, id, caller), out)
            /\ UNCHANGED returned

Next == InitCall \/ AddTask \/ CompleteTask \/ DeleteTask

Spec == Init /\ [][Next]_vars

(***************************************************************************)
(* The read entry points.  None of them takes part in authentication: a    *)
(* read call is recorded with authed FALSE, nobody having authenticated    *)
(* it, and is made of any account's data.                                  *)
(***************************************************************************)
\* A path longer than the buffer of string_to_bytes.
LongPath == [i \in 1..(BufLen + 1) |-> IF i = 1 THEN "/" ELSE "a"]

PathBytes ==
    {home_bytes, about_bytes, tasks_bytes, tasks_pending_bytes, pending_bytes,
     tasks_completed_bytes, completed_bytes,
     task_prefix \o u32_to_bytes(1), task_prefix \o u32_to_bytes(2),
     task_prefix \o u32_to_bytes(12),
     task_prefix \o u32_to_bytes(1) \o <<"/", "x">>,
     task_prefix \o <<"x">>, task_prefix,
     json_prefix, json_prefix \o SubPending, json_prefix \o SubCompleted,
     json_prefix \o <<"/", "x">>, json_prefix \o <<"x">>,
     <<"/", "n", "o", "p", "e">>, <<"t", "a", "s", "k", "s">>,
     LongPath}

Paths == {None} \cup {Some(p) : p \in PathBytes}
Viewers == {None} \cup {Some(a) : a \in Accounts}

ViewerName(viewer) == IF viewer = None THEN "" ELSE viewer[1]

ReadCall(op, caller, id, path, out) ==
    [op |-> op, caller |-> caller, id |-> id, description |-> "",
     authed |-> FALSE, trap |-> out.trap, ret |-> out.ret,
     writes |-> out.writes, found |-> FALSE, path |-> path]

GetStats ==
    LET out == get_stats_call(storage)
    IN  /\ storage' = out.st
        /\ last' = ReadCall("get_stats", "", 0, None, out)
        /\ UNCHANGED returned

GetTasks ==
    \E user \in Accounts :
        LET out == get_tasks_call(storage, user)
        IN  /\ storage' = out.st
            /\ last' = ReadCall("get_tasks", user, 0, None, out)
            /\ UNCHANGED returned

GetTask ==
    \E user \in Accounts, id \in TaskIds :
        LET out == get_task_call(storage, id, user)
        IN  /\ storage' = out.st
            /\ last' = ReadCall("get_task", user, id, None, out)
            /\ UNCHANGED returned

Render ==
    \E path \in Paths, viewer \in Viewers :
        LET out == render(storage, path, viewer)
        IN  /\ storage' = out.st
            /\ last' = ReadCall("render", ViewerName(viewer), 0, path, out)
            /\ UNCHANGED returned

\* The number of successful add_task calls so far.
Added == Len(returned["A"]) + Len(returned["B"])

\* Most add_task calls the second specification follows.
MaxAdded == 2

NextRender ==
    \/ InitCall
    \/ (Added < MaxAdded /\ AddTask)
    \/ CompleteTask
    \/ DeleteTask
    \/ GetStats
    \/ GetTasks
    \/ GetTask
    \/ Render

SpecRender == Init /\ [][NextRender]_vars

(***************************************************************************)
(* The two conversions of the renderers, called on their own.  Of such a   *)
(* call last keeps the function in op, the result in ret, and the          *)
(* argument: the bytes of the string in path, the number in id.            *)
(***************************************************************************)
\* Longest string handed to escape_json_string.
MaxLen == 3

\* The bytes escape_json_string has an arm for, and one it has none for.
EscapeAlphabet == {"\"", "\\", "\n", "\r", "\t", "n"}

EscapeInputs == UNION {[1..k -> EscapeAlphabet] : k \in 0..MaxLen}

\* Largest of the consecutive numbers handed to u32_to_bytes.
NumMax == 120

\* Numbers around the changes of length, up to the largest of ten digits
\* that the checker's integers hold.
LargeNumbers ==
    {999, 1000, 9999, 10000, 65535, 65536, 99999999, 100000000, 999999999,
     1000000000, 1000000001, 2147483647}

Numbers == (0..NumMax) \cup LargeNumbers

EscapeJsonString ==
    \E s \in EscapeInputs :
        /\ last' = [NoCall EXCEPT !.op = "escape_json_string", !.path = Some(s),
                                  !.ret = Some(escape_json_string(s))]
        /\ UNCHANGED <<storage, returned>>

U32ToBytes ==
    \E n \in Numbers :
        /\ last' = [NoCall EXCEPT !.op = "u32_to_bytes", !.id = n,
                                  !.ret = Some(u32_to_bytes(n))]
        /\ UNCHANGED <<storage, returned>>

NextPure == EscapeJsonString \/ U32ToBytes

SpecPure == Init /\ [][NextPure]_vars

(***************************************************************************)
(* Vocabulary of the properties.                                           *)
(***************************************************************************)
Mutators == {"add_task", "complete_task", "delete_task"}

Collection(st, a) == unwrap_or(st.Tasks[tasks_key(a)], MapNew)
TotalTasks(st) == get_stats(st)[1]
UserCount(st) == get_stats(st)[2]
NextIdOf(st, a) == unwrap_or(st.NextId[next_id_key(a)], 1)

RECURSIVE SumSizes(_, _)
SumSizes(st, S) ==
    IF S = {} THEN 0
    ELSE LET a == CHOOSE x \in S : TRUE
         IN  MapLen(Collection(st, a)) + SumSizes(st, S \ {a})

\* The step just taken was a call of op that ran to completion.
Completed(op) == last'.op = op /\ last'.trap = "none"

(***************************************************************************)
(* C1: in every reachable state the stored total_tasks equals the sum over *)
(* all accounts of the number of tasks in the account's collection.        *)
(***************************************************************************)
C1_TotalIsSumOfCollections ==
    TotalTasks(storage) = SumSizes(storage, Accounts)

\* Both accounts hold tasks, and the last call deleted one of them.
C1_Witness ==
    /\ last.op = "delete_task" /\ last.trap = "none" /\ last.found
    /\ \A a \in Accounts : MapLen(Collection(storage, a)) >= 1
    /\ TotalTasks(storage) >= 2

(***************************************************************************)
(* C2: a mutating call whose caller is not authenticated traps on the      *)
(* authentication check before it has issued any storage write, and leaves *)
(* every stored value as it was.                                           *)
(***************************************************************************)
C2_AuthBeforeWrites ==
    [][(last'.op \in Mutators /\ ~last'.authed)
          => /\ last'.trap = "auth"
             /\ last'.writes = 0
             /\ storage' = storage]_vars

\* An unauthenticated complete_task by an account that holds a pending task.
C2_Witness ==
    /\ last.op = "complete_task" /\ ~last.authed /\ last.trap = "auth"
    /\ \E id \in DOMAIN Collection(storage, last.caller) :
           ~Collection(storage, last.caller)[id].completed

(***************************************************************************)
(* C3: per account the first successful add_task returns 1, every later    *)
(* one returns the previously returned id plus 1, and no id is returned    *)
(* twice, deletions notwithstanding.                                       *)
(***************************************************************************)
C3_IdsSequentialNeverReused ==
    [][Completed("add_task")
          => LET prev == returned[last'.caller]
                 id == last'.ret[1]
             IN  /\ prev = <<>> => id = 1
                 /\ prev # <<>> => id = prev[Len(prev)] + 1
                 /\ \A i \in 1..Len(prev) : prev[i] # id]_vars

\* The account added id 1, deleted it, and its next add_task returned 2.
C3_Witness ==
    /\ last.op = "add_task" /\ last.trap = "none" /\ last.ret = Some(2)
    /\ DOMAIN Collection(storage, last.caller) = {2}

(***************************************************************************)
(* C4: user_count grows by exactly 1 on an account's first successful      *)
(* add_task and by 0 on each of its later ones.                            *)
(***************************************************************************)
C4_UserCountOncePerAccount ==
    [][Completed("add_task")
          => UserCount(storage') - UserCount(storage) =
                 (IF returned[last'.caller] = <<>> THEN 1 ELSE 0)]_vars

\* Both accounts have added, one of them twice: user_count is 2.
C4_Witness ==
    /\ last.op = "add_task" /\ last.trap = "none"
    /\ Len(returned[last.caller]) = 2
    /\ \A a \in Accounts : returned[a] # <<>>
    /\ UserCount(storage) = 2

(***************************************************************************)
(* C5: user_count never decreases; complete_task and delete_task leave     *)
(* user_count and every has_tasks flag unchanged; an account that emptied  *)
(* its collection and adds again is not counted a second time.             *)
(***************************************************************************)
C5_UserCountMonotone ==
    [][/\ UserCount(storage') >= UserCount(storage)
       /\ last'.op \in {"complete_task", "delete_task"}
             => /\ storage'.UserCount = storage.UserCount
                /\ storage'.HasTasks = storage.HasTasks
       /\ (Completed("add_task") /\ returned[last'.caller] # <<>>
             /\ MapLen(Collection(storage, last'.caller)) = 0)
             => UserCount(storage') = UserCount(storage)]_vars

\* An add_task by an account whose earlier tasks have all been deleted.
C5_Witness ==
    /\ last.op = "add_task" /\ last.trap = "none" /\ last.ret = Some(2)
    /\ MapLen(Collection(storage, last.caller)) = 1
    /\ UserCount(storage) = 1

(***************************************************************************)
(* C6: a mutating call by account A leaves the collection and the next-id  *)
(* counter of every other account B unchanged, and what get_tasks(B) and   *)
(* get_task(id, B) return afterwards are tasks owned by B, none of A's.    *)
(***************************************************************************)
C6_Isolation ==
    [][last'.op \in Mutators
          => \A b \in Accounts \ {last'.caller} :
                LET listed == get_tasks(storage', b)
                IN  /\ storage'.Tasks[tasks_key(b)] = storage.Tasks[tasks_key(b)]
                    /\ storage'.NextId[next_id_key(b)] = storage.NextId[next_id_key(b)]
                    /\ \A i \in DOMAIN listed : listed[i].owner = b
                    /\ \A id \in U32 :
                          LET got == get_task(storage', id, b)
                          IN  got = None \/ got[1].owner = b]_vars

\* Both accounts hold a task with id 1, with different descriptions.
C6_Witness ==
    /\ last.op = "add_task" /\ last.trap = "none" /\ last.ret = Some(1)
    /\ \A a \in Accounts : get_task(storage, 1, a) # None
    /\ get_task(storage, 1, "A")[1].description # get_task(storage, 1, "B")[1].description

(***************************************************************************)
(* C7: right after add_task(X, A) returned id, get_task(id, A) returns the *)
(* task with that id, description X, completed false and owner A.          *)
(***************************************************************************)
C7_AddGetRoundTrip ==
    (last.op = "add_task" /\ last.trap = "none")
        => get_task(storage, last.ret[1], last.caller) =
               Some([id |-> last.ret[1], description |-> last.description,
                     completed |-> FALSE, owner |-> last.caller])

\* A second add_task of the account, next to an earlier, completed task.
C7_Witness ==
    /\ last.op = "add_task" /\ last.trap = "none" /\ last.ret = Some(2)
    /\ get_task(storage, 1, last.caller) # None
    /\ get_task(storage, 1, last.caller)[1].completed
    /\ get_task(storage, 1, last.caller)[1].description # last.description

(***************************************************************************)
(* C8: an authenticated delete_task of an id that is not in the caller's   *)
(* collection runs to completion and changes no stored value.              *)
(***************************************************************************)
C8_DeleteAbsentNoOp ==
    [][(last'.op = "delete_task" /\ last'.authed
            /\ last'.id \notin DOMAIN Collection(storage, last'.caller))
          => /\ last'.trap = "none"
             /\ storage' = storage]_vars

\* A completed delete_task of an absent id by an account that holds a task.
C8_Witness ==
    /\ last.op = "delete_task" /\ last.authed /\ last.trap = "none" /\ ~last.found
    /\ MapLen(Collection(storage, last.caller)) >= 1
    /\ TotalTasks(storage) >= 1

(***************************************************************************)
(* C9: an authenticated complete_task of an id that is not in the caller's *)
(* collection runs to completion, creates no record and changes no stored  *)
(* value.                                                                  *)
(***************************************************************************)
C9_CompleteAbsentNoOp ==
    [][(last'.op = "complete_task" /\ last'.authed
            /\ last'.id \notin DOMAIN Collection(storage, last'.caller))
          => /\ last'.trap = "none"
             /\ last'.id \notin DOMAIN Collection(storage', last'.caller)
             /\ storage' = storage]_vars

\* A completed complete_task of an absent id by an account that holds a task.
C9_Witness ==
    /\ last.op = "complete_task" /\ last.authed /\ last.trap = "none" /\ ~last.found
    /\ MapLen(Collection(storage, last.caller)) >= 1

(***************************************************************************)
(* C10: an authenticated delete_task of an id in the caller's collection   *)
(* removes that record and no other, lowers total_tasks by exactly 1,      *)
(* leaves the caller's next-id counter and user_count unchanged; and       *)
(* total_tasks is never negative.                                          *)
(***************************************************************************)
C10_DeletePresent ==
    [][/\ (last'.op = "delete_task" /\ last'.authed
              /\ last'.id \in DOMAIN Collection(storage, last'.caller))
          => LET before == Collection(storage, last'.caller)
                 after == Collection(storage', last'.caller)
             IN  /\ last'.trap = "none"
                 /\ DOMAIN after = (DOMAIN before) \ {last'.id}
                 /\ \A k \in DOMAIN after : after[k] = before[k]
                 /\ TotalTasks(storage') = TotalTasks(storage) - 1
                 /\ storage'.NextId = storage.NextId
                 /\ storage'.UserCount = storage.UserCount
       /\ TotalTasks(storage') >= 0]_vars

\* A delete_task of one of the two tasks the caller held.
C10_Witness ==
    /\ last.op = "delete_task" /\ last.trap = "none" /\ last.found
    /\ MapLen(Collection(storage, last.caller)) = 1
    /\ Len(returned[last.caller]) = 2

(***************************************************************************)
(* C11: an authenticated complete_task of an id in the caller's collection *)
(* leaves that task with completed true and its id, description and owner  *)
(* as they were, leaves every other task of every account and every        *)
(* counter unchanged, and is idempotent: the same call repeated right      *)
(* after changes nothing.                                                  *)
(***************************************************************************)
C11_CompletePresent ==
    [][(last'.op = "complete_task" /\ last'.authed
            /\ last'.id \in DOMAIN Collection(storage, last'.caller))
          => LET id == last'.id
                 before == Collection(storage, last'.caller)
                 after == Collection(storage', last'.caller)
                 again == complete_task(storage', id, last'.caller, TRUE)
             IN  /\ last'.trap = "none"
                 /\ DOMAIN after = DOMAIN before
                 /\ after[id] = [before[id] EXCEPT !.completed = TRUE]
                 /\ \A k \in DOMAIN after \ {id} : after[k] = before[k]
                 /\ \A b \in Accounts \ {last'.caller} :
                        storage'.Tasks[tasks_key(b)] = storage.Tasks[tasks_key(b)]
                 /\ storage'.NextId = storage.NextId
                 /\ storage'.HasTasks = storage.HasTasks
                 /\ storage'.TotalTasks = storage.TotalTasks
                 /\ storage'.UserCount = storage.UserCount
                 /\ again.trap = "none"
                 /\ again.st = storage']_vars

\* A complete_task that found its task, next to a pending task of the same
\* account.
C11_Witness ==
    /\ last.op = "complete_task" /\ last.trap = "none" /\ last.found
    /\ last.writes = 1
    /\ Collection(storage, last.caller)[last.id].completed
    /\ \E k \in DOMAIN Collection(storage, last.caller) :
           ~Collection(storage, last.caller)[k].completed

(***************************************************************************)
(* Vocabulary of the properties about the read entry points.               *)
(***************************************************************************)
Reads == {"get_stats", "get_tasks", "get_task", "render"}

(***************************************************************************)
(* C12: render, get_tasks, get_task and get_stats write nothing and demand *)
(* no authentication: a call of any of them, authenticated by nobody, is   *)
(* never refused for authentication and leaves every stored value as it    *)
(* was; get_tasks and get_task return the tasks of the account they are    *)
(* asked about, whoever asks.                                              *)
(***************************************************************************)
C12_ReadsAreReadOnly ==
    [][last'.op \in Reads
          => /\ last'.trap # "auth"
             /\ last'.writes = 0
             /\ storage' = storage
             /\ last'.op = "get_tasks"
                   => last'.ret = Some(MapIter(Collection(storage, last'.caller)))
             /\ last'.op = "get_task"
                   => last'.ret = Some(MapGet(Collection(storage, last'.caller),
                                              last'.id))]_vars

\* An unauthenticated get_tasks of an account that never wrote a collection,
\* while the other account holds a task.
C12_Witness ==
    /\ last.op = "get_tasks" /\ ~last.authed /\ last.trap = "none"
    /\ last.ret = Some(<<>>)
    /\ storage.Tasks[tasks_key(last.caller)] = None
    /\ \E b \in Accounts \ {last.caller} : MapLen(Collection(storage, b)) >= 1

(***************************************************************************)
(* C13: only authorization failures abort a call: every call of a mutating *)
(* entry point whose authentication is satisfied, every get_* call and     *)
(* every render call, of any path of any length and any viewer, runs to    *)
(* completion.  Stated of the last call: it completed, or it was refused   *)
(* for authentication.                                                     *)
(***************************************************************************)
C13_OnlyAuthAborts ==
    last.op # "none" => last.trap \in {"none", "auth"}

(***************************************************************************)
(* The route table as the claims read it.  The path of a call defaults to  *)
(* / when absent.  A literal route matches byte for byte; /json/* matches  *)
(* every path that continues the prefix /json, the rest being the          *)
(* remainder; /task/{id} matches /task/ followed by one non-empty segment, *)
(* that is by bytes none of which is a slash.                              *)
(***************************************************************************)
PathOf(path) == IF path = None THEN home_bytes ELSE path[1]

ViewerOf(call) == IF call.caller = "" THEN None ELSE Some(call.caller)

LiteralRoutes ==
    {home_bytes, about_bytes, tasks_bytes, tasks_pending_bytes, pending_bytes,
     tasks_completed_bytes, completed_bytes, json_prefix}

MatchesJsonWildcard(p) == Len(p) > 5 /\ StartsWith(p, json_prefix, 5)

MatchesTaskId(p) ==
    /\ Len(p) > 6
    /\ StartsWith(p, task_prefix, 6)
    /\ \A i \in 7..Len(p) : p[i] # "/"

MatchesRouteTable(p) ==
    p \in LiteralRoutes \/ MatchesJsonWildcard(p) \/ MatchesTaskId(p)

\* The last call was a render, of this path (the default filled in).
Rendered(p) == last.op = "render" /\ PathOf(last.path) = p

(***************************************************************************)
(* C14: render of a path that matches none of the routes of the table runs *)
(* to completion and returns the bytes that render of / returns to the     *)
(* same viewer.                                                            *)
(***************************************************************************)
C14_UnmatchedIsHome ==
    (last.op = "render" /\ ~MatchesRouteTable(PathOf(last.path)))
        => /\ last.trap = "none"
           /\ last.ret = render(storage, Some(home_bytes), ViewerOf(last)).ret

(***************************************************************************)
(* C15: render of /task/ followed by the decimal text of n returns the     *)
(* single-task detail of the viewer's task with id n, for ids of one digit *)
(* and of two; and render of a path with a further segment after the id is *)
(* not answered by the single-task detail.                                 *)
(***************************************************************************)
TaskPathIds == {1, 2, 12}

C15_TaskRouteReadsWholeId ==
    /\ \A n \in TaskPathIds :
          Rendered(task_prefix \o u32_to_bytes(n))
              => /\ last.trap = "none"
                 /\ last.ret = Some(render_single_task(
                                        viewer_tasks(storage, ViewerOf(last)), n))
    /\ Rendered(task_prefix \o u32_to_bytes(1) \o <<"/", "x">>)
          => /\ last.trap = "none"
             /\ Head(last.ret[1]) # Head(MdTaskDetails)

(***************************************************************************)
(* Reading a rendered task list back: every task line holds the chunk that *)
(* opens the id, followed by the digits of the id.                         *)
(***************************************************************************)
RECURSIVE ParseU32(_, _, _)
ParseU32(out, i, acc) ==
    IF i <= Len(out) /\ IsDigit(out[i])
    THEN ParseU32(out, i + 1, acc * 10 + DigitValue(out[i]))
    ELSE acc

\* The positions of the chunk in the output.
Positions(out, chunk) == {i \in DOMAIN out : out[i] = Head(chunk)}
Contains(out, chunk) == Positions(out, chunk) # {}

\* The ids that follow the chunk in the output, one per occurrence.
IdsAfter(out, chunk) == {ParseU32(out, i + 1, 0) : i \in Positions(out, chunk)}

\* The ids of the tasks of a collection with this completed flag.
IdsWhere(tasks, completed) == {k \in DOMAIN tasks : tasks[k].completed = completed}

\* The output has one task line per id of ids, and no other task line.
MdListsExactly(out, ids) ==
    /\ IdsAfter(out, MdIdOpen) = ids
    /\ Cardinality(Positions(out, MdIdOpen)) = Cardinality(ids)

(***************************************************************************)
(* C16: to a viewer that is present, render of /tasks/pending and of       *)
(* /pending lists exactly the viewer's tasks that are not completed,       *)
(* render of /tasks/completed and of /completed exactly the completed      *)
(* ones, render of /tasks all of them; and the two spellings of a filtered *)
(* route return the same bytes.                                            *)
(***************************************************************************)
C16_ListRoutesFilter ==
    (last.op = "render" /\ last.caller # "" /\ last.trap = "none")
        => LET p == PathOf(last.path)
               tasks == Collection(storage, last.caller)
               out == last.ret[1]
           IN  /\ p \in {tasks_pending_bytes, pending_bytes}
                     => MdListsExactly(out, IdsWhere(tasks, FALSE))
               /\ p \in {tasks_completed_bytes, completed_bytes}
                     => MdListsExactly(out, IdsWhere(tasks, TRUE))
               /\ p = tasks_bytes => MdListsExactly(out, DOMAIN tasks)
               /\ p = tasks_pending_bytes
                     => last.ret = render(storage, Some(pending_bytes), ViewerOf(last)).ret
               /\ p = tasks_completed_bytes
                     => last.ret = render(storage, Some(completed_bytes), ViewerOf(last)).ret

\* /pending rendered to a viewer that holds a pending and a completed task.
C16_Witness ==
    /\ Rendered(pending_bytes) /\ last.caller # "" /\ last.trap = "none"
    /\ IdsWhere(Collection(storage, last.caller), FALSE) # {}
    /\ IdsWhere(Collection(storage, last.caller), TRUE) # {}
    /\ Cardinality(Positions(last.ret[1], MdIdOpen)) = 1

\* The path is answered by a JSON route; Remainder is what follows /json.
IsJsonPath(p) == p = json_prefix \/ MatchesJsonWildcard(p)
Remainder(p) == SubSeq(p, 6, Len(p))

\* The document has one task component per id of ids, and no other.
JsonListsExactly(out, ids) ==
    /\ IdsAfter(out, JsonTaskOpen) = ids
    /\ Cardinality(Positions(out, JsonTaskOpen)) = Cardinality(ids)

(***************************************************************************)
(* C17: to a viewer that is present, render of a JSON path lists the tasks *)
(* its remainder after /json selects: with remainder /pending exactly the  *)
(* viewer's tasks that are not completed, with remainder /completed        *)
(* exactly the completed ones, with an empty or any other remainder all of *)
(* the viewer's tasks.                                                     *)
(***************************************************************************)
C17_JsonRemainderFilter ==
    (last.op = "render" /\ last.caller # "" /\ last.trap = "none"
        /\ IsJsonPath(PathOf(last.path)))
        => LET remainder == Remainder(PathOf(last.path))
               tasks == Collection(storage, last.caller)
               out == last.ret[1]
           IN  IF remainder = SubPending
               THEN JsonListsExactly(out, IdsWhere(tasks, FALSE))
               ELSE IF remainder = SubCompleted
               THEN JsonListsExactly(out, IdsWhere(tasks, TRUE))
               ELSE JsonListsExactly(out, DOMAIN tasks)

\* /json/completed rendered to a viewer that holds a pending and a completed
\* task.
C17_Witness ==
    /\ Rendered(json_prefix \o SubCompleted) /\ last.caller # "" /\ last.trap = "none"
    /\ IdsWhere(Collection(storage, last.caller), FALSE) # {}
    /\ IdsWhere(Collection(storage, last.caller), TRUE) # {}
    /\ Cardinality(Positions(last.ret[1], JsonTaskOpen)) = 1

\* The completed flag of the task component that opens at position i: the
\* chunk after the first completed field that follows i.
JsonFlagAt(out, i) ==
    LET after == {j \in Positions(out, JsonTaskCompleted) : j > i}
        j == CHOOSE x \in after : \A y \in after : x <= y
    IN  out[j + 1] = "true"

(***************************************************************************)
(* C18: to a viewer that is present, the document of /json holds one task  *)
(* component per task of the viewer, with the task's id and its current    *)
(* completed flag; the document of every JSON path holds a chart exactly   *)
(* when the viewer has at least one task, and the chart's Completed and    *)
(* Pending values are the numbers of the viewer's completed and not        *)
(* completed tasks, whatever the filter of the path.                       *)
(***************************************************************************)
C18_JsonTasksAndChart ==
    (last.op = "render" /\ last.caller # "" /\ last.trap = "none"
        /\ IsJsonPath(PathOf(last.path)))
        => LET tasks == Collection(storage, last.caller)
               out == last.ret[1]
           IN  /\ PathOf(last.path) = json_prefix
                     => /\ JsonListsExactly(out, DOMAIN tasks)
                        /\ \A i \in Positions(out, JsonTaskOpen) :
                              LET id == ParseU32(out, i + 1, 0)
                              IN  JsonFlagAt(out, i) = tasks[id].completed
               /\ Contains(out, JsonChartOpen) <=> DOMAIN tasks # {}
               /\ Contains(out, JsonChartOpen)
                     => /\ Cardinality(Positions(out, JsonChartOpen)) = 1
                        /\ IdsAfter(out, JsonChartCompleted) =
                               {Cardinality(IdsWhere(tasks, TRUE))}
                        /\ IdsAfter(out, JsonChartPending) =
                               {Cardinality(IdsWhere(tasks, FALSE))}

\* /json rendered to a viewer whose task 1 is completed and task 2 pending:
\* the chart shows Completed 1 and Pending 1.
C18_Witness ==
    /\ Rendered(json_prefix) /\ last.caller # "" /\ last.trap = "none"
    /\ IdsWhere(Collection(storage, last.caller), TRUE) = {1}
    /\ IdsWhere(Collection(storage, last.caller), FALSE) = {2}
    /\ IdsAfter(last.ret[1], JsonChartCompleted) = {1}
    /\ IdsAfter(last.ret[1], JsonChartPending) = {1}
    /\ Cardinality(Positions(last.ret[1], JsonTaskOpen)) = 2

(***************************************************************************)
(* C19: to an absent viewer, what render returns for /json and for every   *)
(* path that continues /json is, whatever is stored, the reduced document: *)
(* it holds the heading and the connect message, and no form, navigation,  *)
(* chart, container or task component.                                     *)
(***************************************************************************)
C19_JsonWithoutViewer ==
    (last.op = "render" /\ last.caller = "" /\ last.trap = "none"
        /\ IsJsonPath(PathOf(last.path)))
        => LET out == last.ret[1]
           IN  /\ Contains(out, JsonHeading)
               /\ \A i \in DOMAIN JsonConnect : Contains(out, <<JsonConnect[i]>>)
               /\ ~Contains(out, JsonForm)
               /\ ~Contains(out, JsonNavOpen)
               /\ ~Contains(out, JsonChartOpen)
               /\ ~Contains(out, JsonContainerOpen)
               /\ ~Contains(out, JsonTaskOpen)

\* /json/pending rendered to an absent viewer while an account holds a
\* pending task.
C19_Witness ==
    /\ Rendered(json_prefix \o SubPending) /\ last.caller = "" /\ last.trap = "none"
    /\ \E a \in Accounts : IdsWhere(Collection(storage, a), FALSE) # {}
    /\ Contains(last.ret[1], <<JsonConnect[1]>>)

ListRoutes ==
    {tasks_bytes, tasks_pending_bytes, pending_bytes, tasks_completed_bytes,
     completed_bytes}

(***************************************************************************)
(* C20: to an absent viewer, render of each of the task-list routes        *)
(* /tasks, /tasks/pending, /pending, /tasks/completed and /completed runs  *)
(* to completion and returns the connect variant, whatever tasks are       *)
(* stored: it holds the connect text, no add-task form, no filter links    *)
(* and no task line, and it is the same for the five routes.               *)
(***************************************************************************)
C20_ListWithoutViewer ==
    (last.op = "render" /\ last.caller = "" /\ PathOf(last.path) \in ListRoutes)
        => /\ last.trap = "none"
           /\ LET out == last.ret[1]
              IN  /\ \A i \in DOMAIN MdConnect : Contains(out, <<MdConnect[i]>>)
                  /\ \A i \in DOMAIN MdAddTask : ~Contains(out, <<MdAddTask[i]>>)
                  /\ \A i \in DOMAIN MdFilter : ~Contains(out, <<MdFilter[i]>>)
                  /\ ~Contains(out, MdYourTasks)
                  /\ ~Contains(out, MdIdOpen)
                  /\ ~Contains(out, MdDelete)
           /\ last.ret = render(storage, Some(tasks_bytes), None).ret

\* /tasks/completed rendered to an absent viewer while an account holds a
\* completed task.
C20_Witness ==
    /\ Rendered(tasks_completed_bytes) /\ last.caller = "" /\ last.trap = "none"
    /\ \E a \in Accounts : IdsWhere(Collection(storage, a), TRUE) # {}
    /\ Contains(last.ret[1], <<MdConnect[1]>>)

(***************************************************************************)
(* Vocabulary of the properties about the conversions.                     *)
(***************************************************************************)
\* What the claim has a byte emitted as.
EmittedAs(b) ==
    CASE b = "\"" -> <<"\\", "\"">>
      [] b = "\\" -> <<"\\", "\\">>
      [] b = "\n" -> <<"\\", "n">>
      [] b = "\r" -> <<"\\", "r">>
      [] b = "\t" -> <<"\\", "t">>
      [] OTHER -> <<b>>

RECURSIVE EmittedAsAll(_)
EmittedAsAll(s) == IF s = <<>> THEN <<>> ELSE EmittedAs(Head(s)) \o EmittedAsAll(Tail(s))

\* The byte a JSON reader takes for a backslash followed by c.
Unescaped(c) ==
    CASE c = "n" -> "\n"
      [] c = "r" -> "\r"
      [] c = "t" -> "\t"
      [] OTHER -> c

\* What a JSON reader reads from the text: a backslash and the byte after it
\* stand for one byte.
RECURSIVE Unescape(_)
Unescape(text) ==
    IF text = <<>> THEN <<>>
    ELSE IF Head(text) = "\\" /\ Len(text) >= 2
    THEN <<Unescaped(text[2])>> \o Unescape(Tail(Tail(text)))
    ELSE <<Head(text)>> \o Unescape(Tail(text))

\* The bytes of the text that no backslash introduces.
RECURSIVE RawBytes(_)
RawBytes(text) ==
    IF text = <<>> THEN <<>>
    ELSE IF Head(text) = "\\" /\ Len(text) >= 2
    THEN RawBytes(Tail(Tail(text)))
    ELSE <<Head(text)>> \o RawBytes(Tail(text))

(***************************************************************************)
(* C21: escape_json_string emits every double quote as backslash and       *)
(* double quote, every backslash as two backslashes, newline, carriage     *)
(* return and tab as backslash and n, r, t, and every other byte as it is, *)
(* in order; the text it returns has no double quote but after a          *)
(* backslash, no newline, carriage return or tab at all, and un-escaping   *)
(* it gives back the string.                                               *)
(***************************************************************************)
C21_JsonEscaping ==
    last.op = "escape_json_string"
        => LET s == last.path[1]
               text == last.ret[1]
           IN  /\ text = EmittedAsAll(s)
               /\ \A i \in DOMAIN RawBytes(text) : RawBytes(text)[i] # "\""
               /\ \A i \in DOMAIN text : text[i] \notin {"\n", "\r", "\t"}
               /\ Unescape(text) = s

\* A string with a backslash before an n and a double quote: the escaped text
\* is longer than the string.
C21_Witness ==
    /\ last.op = "escape_json_string"
    /\ last.path = Some(<<"\\", "n", "\"">>)
    /\ last.ret = Some(<<"\\", "\\", "n", "\\", "\"">>)

RECURSIVE Pow10(_)
Pow10(k) == IF k = 0 THEN 1 ELSE 10 * Pow10(k - 1)

(***************************************************************************)
(* C22: u32_to_bytes(n) is the decimal text of n: ASCII digits, the most   *)
(* significant first, the digit at each place the one n has there, no      *)
(* leading zero, the single digit 0 for 0; and read back as a decimal      *)
(* number the digits give n.                                               *)
(***************************************************************************)
C22_DecimalText ==
    last.op = "u32_to_bytes"
        => LET n == last.id
               out == last.ret[1]
               len == Len(out)
           IN  /\ len >= 1
               /\ \A i \in 1..len :
                     /\ IsDigit(out[i])
                     /\ DigitValue(out[i]) = (n \div Pow10(len - i)) % 10
               /\ n = 0 => out = <<"0">>
               /\ n > 0 => out[1] # "0"
               /\ ParseU32(out, 1, 0) = n

\* The text of the smallest number of ten digits.
C22_Witness ==
    /\ last.op = "u32_to_bytes"
    /\ last.id = 1000000000
    /\ last.ret = Some(<<"1", "0", "0", "0", "0", "0", "0", "0", "0", "0">>)

(***************************************************************************)
(* Reading the actions of a rendered task back.  A rendered task opens     *)
(* with a chunk followed by its id and reaches to the next such chunk, or  *)
(* to the end of the output.                                               *)
(***************************************************************************)
SingleIdOpen == Lit("**ID:** ")

SegmentEnd(out, open, i) ==
    LET later == {j \in Positions(out, open) : j > i}
    IN  IF later = {} THEN Len(out) + 1
        ELSE CHOOSE x \in later : \A y \in later : x <= y

\* The places of the action chunk within the rendered task that opens at i.
ActionsOf(out, open, i, action) ==
    {j \in Positions(out, action) : i < j /\ j < SegmentEnd(out, open, i)}

\* Every task the output renders has one delete action, of its own id, and
\* one mark-complete action, of its own id, if it is not completed, none if
\* it is; and the output has no action outside its rendered tasks.
ActionsAreOwn(out, tasks, open, done, delete) ==
    /\ \A i \in Positions(out, open) :
          LET id == ParseU32(out, i + 1, 0)
              dones == ActionsOf(out, open, i, done)
              deletes == ActionsOf(out, open, i, delete)
          IN  /\ id \in DOMAIN tasks
              /\ Cardinality(deletes) = 1
              /\ \A j \in deletes : ParseU32(out, j + 1, 0) = id
              /\ Cardinality(dones) = (IF tasks[id].completed THEN 0 ELSE 1)
              /\ \A j \in dones : ParseU32(out, j + 1, 0) = id
    /\ \A j \in Positions(out, done) \cup Positions(out, delete) :
          \E i \in Positions(out, open) : i < j

(***************************************************************************)
(* C23: in the task list, in the JSON document and in the single-task      *)
(* view, every rendered task carries a delete action of its own id, and a  *)
(* mark-complete action of its own id exactly when it is not completed; no *)
(* action names the id of another task.                                    *)
(***************************************************************************)
C23_ActionsNameOwnTask ==
    (last.op = "render" /\ last.trap = "none")
        => LET tasks == viewer_tasks(storage, ViewerOf(last))
               out == last.ret[1]
               view == route(PathOf(last.path)).handler
           IN  /\ view = "render_task_list"
                     => ActionsAreOwn(out, tasks, MdIdOpen, MdDone, MdDelete)
               /\ view = "render_json"
                     => ActionsAreOwn(out, tasks, JsonTaskOpen, JsonActionDone,
                                      JsonActionDelete)
               /\ view = "render_single_task"
                     => ActionsAreOwn(out, tasks, SingleIdOpen, MdMarkComplete,
                                      MdDelete)

\* The JSON document of a viewer whose task 1 is completed and task 2 is not:
\* two delete actions and one complete_task action.
C23_Witness ==
    /\ Rendered(json_prefix) /\ last.caller # "" /\ last.trap = "none"
    /\ IdsWhere(Collection(storage, last.caller), TRUE) = {1}
    /\ IdsWhere(Collection(storage, last.caller), FALSE) = {2}
    /\ IdsAfter(last.ret[1], JsonActionDone) = {2}
    /\ IdsAfter(last.ret[1], JsonActionDelete) = {1, 2}

\* The output has the one message exactly when it lists no task of an empty
\* collection, the other exactly when it lists no task of a non-empty one.
EmptyMessages(out, tasks, open, no_tasks, no_matching) ==
    LET listed == Positions(out, open) # {}
    IN  /\ Contains(out, no_tasks) <=> (~listed /\ DOMAIN tasks = {})
        /\ Contains(out, no_matching) <=> (~listed /\ DOMAIN tasks # {})

(***************************************************************************)
(* C24: to a viewer that is present, the task list and the JSON document   *)
(* say so when they list no task, in two ways: 'no tasks yet' when the     *)
(* viewer's collection is empty, 'no matching tasks' when the collection   *)
(* is not empty and no task of it passes the filter; and neither message   *)
(* when a task is listed.                                                  *)
(***************************************************************************)
C24_EmptyMessages ==
    (last.op = "render" /\ last.caller # "" /\ last.trap = "none")
        => LET tasks == Collection(storage, last.caller)
               out == last.ret[1]
               view == route(PathOf(last.path)).handler
           IN  /\ view = "render_task_list"
                     => EmptyMessages(out, tasks, MdIdOpen, MdNoTasks, MdNoMatching)
               /\ view = "render_json"
                     => EmptyMessages(out, tasks, JsonTaskOpen, JsonNoTasks,
                                      JsonNoMatching)

(***************************************************************************)
(* C25: get_tasks(A) returns every task of A's collection once and nothing *)
(* else, in the order in which the tasks were added, which is that of      *)
(* strictly increasing id.                                                 *)
(***************************************************************************)
C25_GetTasksOrder ==
    (last.op = "get_tasks" /\ last.trap = "none")
        => LET tasks == Collection(storage, last.caller)
               listed == last.ret[1]
               added == SelectSeq(returned[last.caller],
                                  LAMBDA id : id \in DOMAIN tasks)
           IN  /\ Len(listed) = MapLen(tasks)
               /\ \A k \in DOMAIN tasks : \E i \in DOMAIN listed : listed[i] = tasks[k]
               /\ \A i \in DOMAIN listed :
                     /\ listed[i].id \in DOMAIN tasks
                     /\ listed[i] = tasks[listed[i].id]
               /\ \A i, j \in DOMAIN listed : i < j => listed[i].id < listed[j].id
               /\ [i \in DOMAIN listed |-> listed[i].id] = added

\* get_tasks of an account that holds two tasks, the older one completed.
C25_Witness ==
    /\ last.op = "get_tasks" /\ last.trap = "none"
    /\ Len(last.ret[1]) = 2
    /\ last.ret[1][1].completed /\ ~last.ret[1][2].completed
    /\ returned[last.caller] = <<1, 2>>

(***************************************************************************)
(* C26: in every reachable state, for every account and every key k of its *)
(* collection, the task stored under k has the id field k.                 *)
(***************************************************************************)
C26_KeyIsTaskId ==
    \A a \in Accounts :
        \A k \in DOMAIN Collection(storage, a) : Collection(storage, a)[k].id = k

\* A complete_task has rewritten task 2 of an account whose task 1 is deleted.
C26_Witness ==
    /\ last.op = "complete_task" /\ last.trap = "none" /\ last.found /\ last.id = 2
    /\ DOMAIN Collection(storage, last.caller) = {2}
    /\ Collection(storage, last.caller)[2].completed

\* The storage of a contract on which nothing was ever written.
NothingStored(st) ==
    /\ \A a \in Accounts :
          st.Tasks[a] = None /\ st.NextId[a] = None /\ st.HasTasks[a] = None
    /\ st.TotalTasks = None
    /\ st.UserCount = None

(***************************************************************************)
(* C27: no initialization is required.  While nothing is stored get_stats  *)
(* returns (0, 0), get_tasks the empty sequence and get_task none, for     *)
(* every account and id, and an authenticated add_task runs to completion  *)
(* and returns 1; and a call of init, at any time, changes no stored       *)
(* value.                                                                  *)
(***************************************************************************)
C27_NoInitRequired ==
    [][/\ NothingStored(storage)
          => /\ get_stats_call(storage).ret = Some(<<0, 0>>)
             /\ \A a \in Accounts :
                   /\ get_tasks_call(storage, a).ret = Some(<<>>)
                   /\ \A id \in U32 : get_task_call(storage, id, a).ret = Some(None)
             /\ (last'.op = "add_task" /\ last'.authed)
                   => last'.trap = "none" /\ last'.ret = Some(1)
       /\ last'.op = "init" => storage' = storage]_vars

\* A call of init on a contract that holds a task.
C27_Witness ==
    /\ last.op = "init"
    /\ TotalTasks(storage) >= 1

AboutTotalLabel == Lit("**Total Tasks**\n\n")
AboutUsersLabel == Lit("**Unique Users**\n\n")

\* The number the about page prints as the heading under the label.
AboutNumber(out, label) ==
    LET i == CHOOSE i \in Positions(out, label) : TRUE
    IN  ParseU32(out, i + 2, 0)

\* The label occurs once, followed by a heading of decimal digits.
AboutShows(out, label) ==
    /\ Cardinality(Positions(out, label)) = 1
    /\ \A i \in Positions(out, label) :
          /\ i + 2 <= Len(out)
          /\ out[i + 1] = "# "
          /\ IsDigit(out[i + 2])

(***************************************************************************)
(* C28: render of /about, to any viewer and to none, runs to completion    *)
(* and prints as Total Tasks and as Unique Users the two numbers that      *)
(* get_stats returns in the same state.                                    *)
(***************************************************************************)
C28_AboutShowsStats ==
    Rendered(about_bytes)
        => /\ last.trap = "none"
           /\ AboutShows(last.ret[1], AboutTotalLabel)
           /\ AboutShows(last.ret[1], AboutUsersLabel)
           /\ <<AboutNumber(last.ret[1], AboutTotalLabel),
                AboutNumber(last.ret[1], AboutUsersLabel)>> = get_stats(storage)

\* /about rendered to no viewer after one account has added two tasks.
C28_Witness ==
    /\ Rendered(about_bytes)
    /\ last.caller = ""
    /\ get_stats(storage) = <<2, 1>>
    /\ AboutNumber(last.ret[1], AboutTotalLabel) = 2
    /\ AboutNumber(last.ret[1], AboutUsersLabel) = 1

(***************************************************************************)
(* C29: the guard of delete_task against underflow is never exercised.  In *)
(* every reachable state where some account's collection holds a task the  *)
(* global task counter is above zero, so a delete_task of an existing task *)
(* takes the branch that decrements, writing the collection and the        *)
(* counter, and never the branch that skips the decrement.                 *)
(***************************************************************************)
C29_GuardNeverExercised ==
    /\ (\E a \in Accounts : DOMAIN Collection(storage, a) # {})
          => TotalTasks(storage) > 0
    /\ \A a \in Accounts : \A id \in DOMAIN Collection(storage, a) :
          delete_task(storage, id, a, TRUE).writes = 2
    /\ (last.op = "delete_task" /\ last.trap = "none" /\ last.found)
          => last.writes = 2

\* A delete_task has removed the last task of the contract.
C29_Witness ==
    /\ last.op = "delete_task" /\ last.trap = "none" /\ last.found
    /\ last.writes = 2
    /\ TotalTasks(storage) = 0
    /\ \A a \in Accounts : DOMAIN Collection(storage, a) = {}

(***************************************************************************)
(* C30: render of /task/ followed by the decimal text of n, to a viewer    *)
(* whose collection holds no task with id n and to no viewer, runs to      *)
(* completion and returns the heading followed by the task-not-found       *)
(* message, with no action to complete or to delete a task; for ids of one *)
(* digit and of two.                                                       *)
(***************************************************************************)
C30_AbsentTaskNotFound ==
    \A n \in TaskPathIds :
        (/\ Rendered(task_prefix \o u32_to_bytes(n))
         /\ n \notin DOMAIN viewer_tasks(storage, ViewerOf(last)))
            => /\ last.trap = "none"
               /\ last.ret = Some(MdTaskDetails \o MdNotFound)
               /\ ~Contains(last.ret[1], MdMarkComplete)
               /\ ~Contains(last.ret[1], MdDelete)

(***************************************************************************)
(* Reading the two serializations back as the sequence of the tasks they   *)
(* list, each with its id and its completed flag.                          *)
(***************************************************************************)
\* The members of a set of positions, in increasing order.
Ascending(S) ==
    [n \in 1..Cardinality(S) |-> CHOOSE x \in S : Cardinality({y \in S : y < x}) = n - 1]

MdChecked == Lit("[x]")
MdUnchecked == Lit("[ ]")

\* The checkbox of the task line whose id opens at position i: the last
\* checkbox before i.
MdFlagAt(out, i) ==
    LET before == {j \in Positions(out, MdChecked) \cup Positions(out, MdUnchecked) : j < i}
        j == CHOOSE x \in before : \A y \in before : y <= x
    IN  out[j] = Head(MdChecked)

MdEntries(out) ==
    LET pos == Ascending(Positions(out, MdIdOpen))
    IN  [n \in DOMAIN pos |-> <<ParseU32(out, pos[n] + 1, 0), MdFlagAt(out, pos[n])>>]

JsonEntries(out) ==
    LET pos == Ascending(Positions(out, JsonTaskOpen))
    IN  [n \in DOMAIN pos |-> <<ParseU32(out, pos[n] + 1, 0), JsonFlagAt(out, pos[n])>>]

\* The task-list routes, each with the JSON path of the same filter.
SerializerPairs ==
    {<<tasks_bytes, json_prefix>>,
     <<tasks_pending_bytes, json_prefix \o SubPending>>,
     <<pending_bytes, json_prefix \o SubPending>>,
     <<tasks_completed_bytes, json_prefix \o SubCompleted>>,
     <<completed_bytes, json_prefix \o SubCompleted>>}

(***************************************************************************)
(* C31: to a viewer that is present, and in the same state, the task list  *)
(* of a task-list route and the task container of the JSON path with the   *)
(* same filter (none, pending, completed) list the same task ids, in the   *)
(* same order, with the same completed flags.                              *)
(***************************************************************************)
C31_SerializersAgree ==
    (last.op = "render" /\ last.caller # "" /\ last.trap = "none")
        => \A pair \in SerializerPairs :
              PathOf(last.path) = pair[1]
                  => LET json == render(storage, Some(pair[2]), ViewerOf(last))
                     IN  /\ json.trap = "none"
                         /\ MdEntries(last.ret[1]) = JsonEntries(json.ret[1])

\* /tasks rendered to a viewer whose task 1 is completed and task 2 pending.
C31_Witness ==
    /\ Rendered(tasks_bytes) /\ last.caller # "" /\ last.trap = "none"
    /\ MdEntries(last.ret[1]) = <<<<1, TRUE>>, <<2, FALSE>>>>
    /\ JsonEntries(render(storage, Some(json_prefix), ViewerOf(last)).ret[1])
          = <<<<1, TRUE>>, <<2, FALSE>>>>

\* The navigation item of the filter a JSON path selects.
SelectedItem(p) ==
    IF Remainder(p) = SubPending THEN JsonNavPending
    ELSE IF Remainder(p) = SubCompleted THEN JsonNavCompleted
    ELSE JsonNavAll

(***************************************************************************)
(* C32: in the document render returns for a JSON path to a viewer that is *)
(* present, the navigation holds the three items All, Pending and          *)
(* Completed once each, exactly one active flag, and the flag is on the    *)
(* item of the filter the path selects: All for no filter, Pending for     *)
(* /pending, Completed for /completed.                                     *)
(***************************************************************************)
C32_OneActiveItem ==
    (last.op = "render" /\ last.caller # "" /\ last.trap = "none"
        /\ IsJsonPath(PathOf(last.path)))
        => LET out == last.ret[1]
           IN  /\ \A item \in {JsonNavAll, JsonNavPending, JsonNavCompleted} :
                     Cardinality(Positions(out, item)) = 1
               /\ Cardinality(Positions(out, JsonActive)) = 1
               /\ \A i \in Positions(out, JsonActive) :
                     /\ i > 1
                     /\ out[i - 1] = Head(SelectedItem(PathOf(last.path)))

\* /json/pending rendered to a viewer that is present: Pending is active.
C32_Witness ==
    /\ Rendered(json_prefix \o SubPending) /\ last.caller # "" /\ last.trap = "none"
    /\ \E i \in Positions(last.ret[1], JsonActive) :
          i > 1 /\ last.ret[1][i - 1] = Head(JsonNavPending)

(***************************************************************************)
(* C33: in every reachable state and for every account, the stored next-id *)
(* counter (1 when absent) is greater than every id of the account's       *)
(* collection and stays within u32, also once the counter has reached      *)
(* u32::MAX; so the id an add_task of the account would store its task     *)
(* under is never a key of the collection.                                 *)
(***************************************************************************)
C33_NextIdAboveEveryId ==
    \A a \in Accounts :
        /\ NextIdOf(storage, a) \in U32
        /\ \A k \in DOMAIN Collection(storage, a) : k < NextIdOf(storage, a)
        /\ \A description \in Descriptions :
              LET out == add_task(storage, description, a, TRUE)
              IN  out.trap = "none" => out.ret[1] \notin DOMAIN Collection(storage, a)

\* An add_task has trapped on next_id + 1 with the counter at u32::MAX, the
\* account holding the task with the id before it.
C33_Witness ==
    /\ last.op = "add_task" /\ last.trap = "overflow" /\ last.writes = 1
    /\ NextIdOf(storage, last.caller) = U32Max
    /\ U32Max - 1 \in DOMAIN Collection(storage, last.caller)

\* The accounts whose has_tasks flag is set.
Flagged(st) == {a \in Accounts : unwrap_or(st.HasTasks[has_tasks_key(a)], FALSE)}

\* The accounts that hold a task.
Holding(st) == {a \in Accounts : DOMAIN Collection(st, a) # {}}

(***************************************************************************)
(* C34: in every reachable state user_count is the number of accounts      *)
(* whose has_tasks flag is set, every account with a non-empty collection  *)
(* has its flag set, and so user_count is at least the number of accounts  *)
(* that hold a task.                                                       *)
(***************************************************************************)
C34_UserCountIsFlagCount ==
    /\ UserCount(storage) = Cardinality(Flagged(storage))
    /\ Holding(storage) \subseteq Flagged(storage)
    /\ UserCount(storage) >= Cardinality(Holding(storage))

\* Both accounts are flagged and counted, one of them holds no task any more.
C34_Witness ==
    /\ last.op = "delete_task" /\ last.trap = "none" /\ last.found
    /\ Flagged(storage) = Accounts
    /\ UserCount(storage) = 2
    /\ Cardinality(Holding(storage)) = 1

(***************************************************************************)
(* C35: in every reachable state, every task stored in the collection of   *)
(* an account has that account as its owner field.                         *)
(***************************************************************************)
C35_OwnerIsAccount ==
    \A a \in Accounts :
        \A k \in DOMAIN Collection(storage, a) : Collection(storage, a)[k].owner = a

\* A complete_task has rewritten a task of B while A holds a task too.
C35_Witness ==
    /\ last.op = "complete_task" /\ last.trap = "none" /\ last.found
    /\ last.caller = "B"
    /\ Collection(storage, "B")[last.id].owner = "B"
    /\ Collection(storage, "B")[last.id].completed
    /\ DOMAIN Collection(storage, "A") # {}

(***************************************************************************)
(* C36: completion is irreversible.  In every step, a task that is         *)
(* completed before the step and still in its account's collection after   *)
(* it is completed after it: no call sets completed back to false.  Ids    *)
(* are never reused (C3), so a key names the same task for as long as it   *)
(* exists.                                                                 *)
(***************************************************************************)
C36_CompletionIrreversible ==
    [][\A a \in Accounts :
          \A k \in DOMAIN Collection(storage, a) \cap DOMAIN Collection(storage', a) :
              Collection(storage, a)[k].completed
                  => Collection(storage', a)[k].completed]_vars

\* A complete_task of task 2 by an account whose task 1 was completed before
\* and still is.
C36_Witness ==
    /\ last.op = "complete_task" /\ last.trap = "none" /\ last.found /\ last.id = 2
    /\ DOMAIN Collection(storage, last.caller) = {1, 2}
    /\ Collection(storage, last.caller)[1].completed
    /\ Collection(storage, last.caller)[2].completed

(***************************************************************************)
(* C37: a task's description is fixed at creation.  The task an add_task   *)
(* stores has the description of the call, and in every step, by whichever *)
(* account, a task that is in its account's collection before and after    *)
(* the step has the same description after it as before.                   *)
(***************************************************************************)
C37_DescriptionFixed ==
    [][/\ Completed("add_task")
             => Collection(storage', last'.caller)[last'.ret[1]].description
                    = last'.description
       /\ \A a \in Accounts :
             \A k \in DOMAIN Collection(storage, a) \cap DOMAIN Collection(storage', a) :
                 Collection(storage', a)[k].description
                     = Collection(storage, a)[k].description]_vars

\* A complete_task of a task with description Y, next to a task of the same
\* account with description X, while the other account holds a task.
C37_Witness ==
    /\ last.op = "complete_task" /\ last.trap = "none" /\ last.found
    /\ Collection(storage, last.caller)[last.id].description = "Y"
    /\ \E k \in DOMAIN Collection(storage, last.caller) :
          Collection(storage, last.caller)[k].description = "X"
    /\ \E b \in Accounts \ {last.caller} : DOMAIN Collection(storage, b) # {}

\* The storage with everything removed but the collection of the viewer:
\* the collections of the other accounts, every next-id counter and
\* has_tasks flag, and the two global counters.
OwnView(st, viewer) ==
    [Tasks |-> [a \in Accounts |-> IF viewer = Some(a) THEN st.Tasks[a] ELSE None],
     NextId |-> [a \in Accounts |-> None],
     HasTasks |-> [a \in Accounts |-> None],
     TotalTasks |-> None,
     UserCount |-> None]

(***************************************************************************)
(* C38: for every path other than /about, what render returns to a viewer, *)
(* and whether it runs to completion, is what it returns in the state that *)
(* holds the viewer's collection and nothing else.  Two states with the    *)
(* same collection of the viewer therefore give the same output, whatever  *)
(* the other accounts have stored and whatever the counters are.           *)
(***************************************************************************)
C38_RenderNoninterference ==
    (last.op = "render" /\ PathOf(last.path) # about_bytes)
        => LET own == render(OwnView(storage, ViewerOf(last)), last.path, ViewerOf(last))
           IN  /\ last.trap = own.trap
               /\ last.ret = own.ret

\* /tasks rendered to B, who holds one task, while A holds one too.
C38_Witness ==
    /\ Rendered(tasks_bytes) /\ last.caller = "B" /\ last.trap = "none"
    /\ MapLen(Collection(storage, "B")) = 1
    /\ MapLen(Collection(storage, "A")) = 1
    /\ TotalTasks(storage) = 2
    /\ Cardinality(Positions(last.ret[1], MdIdOpen)) = 1

(***************************************************************************)
(* The separators of the JSON document, read at the level of the chunks    *)
(* render_json pushes.                                                     *)
(***************************************************************************)
JsonComma == Lit(",")
JsonDoneEnd == Lit("},\"label\":\"Done\"}")
JsonDeleteEnd == Lit("},\"label\":\"Delete\"}")
JsonTaskEnd == Lit("]}")
JsonContainerClose == Lit("]},")

At(out, i, chunk) == i \in DOMAIN out /\ out[i] = Head(chunk)

\* The first position from i on that holds no digit.
RECURSIVE NextNonDigit(_, _)
NextNonDigit(out, i) ==
    IF i <= Len(out) /\ IsDigit(out[i]) THEN NextNonDigit(out, i + 1) ELSE i

\* The action list that opens at position a holds the delete action alone,
\* or the complete action, one comma and the delete action, and closes.
ActionListValid(out, a) ==
    \/ /\ At(out, a + 1, JsonActionDelete)
       /\ LET e == NextNonDigit(out, a + 2)
          IN  At(out, e, JsonDeleteEnd) /\ At(out, e + 1, JsonTaskEnd)
    \/ /\ At(out, a + 1, JsonActionDone)
       /\ LET e == NextNonDigit(out, a + 2)
          IN  /\ At(out, e, JsonDoneEnd)
              /\ At(out, e + 1, JsonComma)
              /\ At(out, e + 2, JsonActionDelete)
              /\ LET f == NextNonDigit(out, e + 3)
                 IN  At(out, f, JsonDeleteEnd) /\ At(out, f + 1, JsonTaskEnd)

\* The task container holds one text component when no task is listed, and
\* otherwise the task components with one comma between two of them, none
\* before the first and none after the last.
ContainerValid(out) ==
    LET o == CHOOSE i \in Positions(out, JsonContainerOpen) : TRUE
        closes == {j \in Positions(out, JsonContainerClose) : j > o}
        c == CHOOSE x \in closes : \A y \in closes : x <= y
        T == Positions(out, JsonTaskOpen)
        inside(chunk) == {i \in Positions(out, chunk) : o < i /\ i < c}
    IN  /\ Cardinality(Positions(out, JsonContainerOpen)) = 1
        /\ closes # {}
        /\ \A t \in T : o < t /\ t < c
        /\ IF T = {}
           THEN /\ c = o + 2
                /\ At(out, o + 1, JsonNoMatching) \/ At(out, o + 1, JsonNoTasks)
           ELSE /\ At(out, o + 1, JsonTaskOpen)
                /\ At(out, c - 1, JsonTaskEnd)
                /\ \A t \in T \ {o + 1} :
                      At(out, t - 1, JsonComma) /\ At(out, t - 2, JsonTaskEnd)
                /\ \A i \in inside(JsonTaskEnd) :
                      i + 1 = c \/ (At(out, i + 1, JsonComma) /\ At(out, i + 2, JsonTaskOpen))
                /\ ~Contains(out, JsonNoMatching) /\ ~Contains(out, JsonNoTasks)
                /\ Cardinality(inside(JsonComma)) =
                       (Cardinality(T) - 1) + Cardinality(inside(JsonActionDone))

(***************************************************************************)
(* C39: the JSON document keeps valid list separators.  To a viewer that   *)
(* is present, for every task set and filter, the components of the task   *)
(* container are separated by exactly one comma, with none leading or      *)
(* trailing (one text component when nothing is listed), and so are the    *)
(* one or two actions of each task; and for every viewer the top-level     *)
(* components list ends with the footer text component, with no comma      *)
(* between it and the closing bracket.                                     *)
(***************************************************************************)
C39_JsonSeparators ==
    (last.op = "render" /\ last.trap = "none" /\ IsJsonPath(PathOf(last.path)))
        => LET out == last.ret[1]
           IN  /\ last.caller # ""
                     => /\ ContainerValid(out)
                        /\ \A a \in Positions(out, JsonActionsOpen) : ActionListValid(out, a)
                        /\ Cardinality(Positions(out, JsonActionsOpen))
                               = Cardinality(Positions(out, JsonTaskOpen))
               /\ At(out, Len(out), JsonClose)
               /\ At(out, Len(out) - 1, JsonFooter)
               /\ At(out, Len(out) - 2, JsonDivider)

\* /json rendered to a viewer with a completed task (one action) and a
\* pending one (two actions): one comma between the tasks, one between the
\* two actions.
C39_Witness ==
    /\ Rendered(json_prefix) /\ last.caller # "" /\ last.trap = "none"
    /\ IdsWhere(Collection(storage, last.caller), TRUE) = {1}
    /\ IdsWhere(Collection(storage, last.caller), FALSE) = {2}
    /\ Cardinality(Positions(last.ret[1], JsonComma)) = 2
    /\ Cardinality(Positions(last.ret[1], JsonTaskEnd)) = 3

====
